---- MODULE Spec2Model ----
(***************************************************************************)
(* Model of cortana: the command classifier (cli.check_command_rules), the  *)
(* rule store (cli.load_rules), the plan executor (planner.execute_plan)   *)
(* with plan persistence (planner.save_plan / load_plan), the knowledge    *)
(* base updater (cli.update_knowledge) and the command paths of cli.main.  *)
(***************************************************************************)
EXTENDS Integers, Sequences, FiniteSets, TLC

VARIABLES
    files,          \* the rule sources on disk: safety file, preferences file, whitelist file
    rules,          \* cli.main: rules = load_rules()
    command,        \* the command under classification / proposed by the LLM
    action,         \* result of check_command_rules(command, rules)
    steps,          \* the in-memory plan: List[PlanStep]
    entry,          \* history: steps, knowledge and plan file when execute_plan was invoked
    plan_file,      \* content of the plan file
    knowledge,      \* the in-memory knowledge base
    knowledge_file, \* content of the knowledge file
    ep,             \* frame of execute_plan: position, loop index, locals
    mn,             \* frame of main: position and locals
    CURRENT_DIR,    \* cli.CURRENT_DIR: the session working directory
    fs,             \* the filesystem: path -> [kind: "file" | "directory", content]
    log,            \* history: runner invocations, updates and plan saves, in order
    call            \* history: the last operation of a session, its arguments, the
                    \* state it started from and what it returned

vars == <<files, rules, command, action, steps, entry, plan_file,
          knowledge, knowledge_file, ep, mn, CURRENT_DIR, fs, log, call>>

-----------------------------------------------------------------------------
(* Bounds of the model *)

MaxFrags == 2       \* a command is the concatenation of at most MaxFrags fragments
MaxSteps == 3       \* a plan has at most MaxSteps steps
MaxRuns == 2        \* the interactive loop takes at most MaxRuns requests (questions, plans)
MaxInvokes == 2     \* execute_plan is invoked at most MaxInvokes times on a plan
MaxOps == 2         \* a session performs at most MaxOps operations after start-up

-----------------------------------------------------------------------------
(* Strings: Python's str operations used by the code *)

Range(s) == {s[i] : i \in DOMAIN s}

\* Python: pat in cmd  (substring test; the empty string is in every string)
StrIn(pat, cmd) ==
    \/ Len(pat) = 0
    \/ \E i \in 1..(Len(cmd) - Len(pat) + 1) : SubSeq(cmd, i, i + Len(pat) - 1) = pat

\* Python: s.startswith(p)
StartsWith(s, p) == Len(p) <= Len(s) /\ (Len(p) = 0 \/ SubSeq(s, 1, Len(p)) = p)

CharAt(s, i) == SubSeq(s, i, i)

ShlexWhitespace == {" ", "\t", "\r", "\n"}
ShlexQuotes == {"'", "\""}
ShlexEscape == {"\\"}

\* shlex.shlex(posix=True, whitespace_split=True, commenters='').read_token, run
\* over the whole input.  st is the lexer state (" ", "a", a quote or the escape
\* character), esc the escapedstate, tok the token being built, quoted the
\* per-token flag, out the tokens produced so far.
RECURSIVE ShlexRun(_, _, _, _, _, _, _)
ShlexRun(s, i, st, esc, tok, quoted, out) ==
    LET emit == IF tok # "" \/ quoted THEN Append(out, tok) ELSE out
        c == CharAt(s, i)
    IN  IF i > Len(s)
        THEN IF st \in ShlexQuotes \/ st \in ShlexEscape
             THEN [ok |-> FALSE, parts |-> <<>>]     \* ValueError
             ELSE [ok |-> TRUE, parts |-> emit]
        ELSE IF st = " "
        THEN IF c \in ShlexWhitespace THEN ShlexRun(s, i + 1, " ", esc, "", FALSE, emit)
             ELSE IF c \in ShlexEscape THEN ShlexRun(s, i + 1, c, "a", tok, quoted, out)
             ELSE IF c \in ShlexQuotes THEN ShlexRun(s, i + 1, c, esc, tok, quoted, out)
             ELSE ShlexRun(s, i + 1, "a", esc, c, quoted, out)
        ELSE IF st \in ShlexQuotes
        THEN IF c = st THEN ShlexRun(s, i + 1, "a", esc, tok, TRUE, out)
             ELSE IF c \in ShlexEscape /\ st = "\""
                  THEN ShlexRun(s, i + 1, c, st, tok, TRUE, out)
             ELSE ShlexRun(s, i + 1, st, esc, tok \o c, TRUE, out)
        ELSE IF st \in ShlexEscape
        THEN IF esc \in ShlexQuotes /\ c # st /\ c # esc
             THEN ShlexRun(s, i + 1, esc, esc, (tok \o st) \o c, quoted, out)
             ELSE ShlexRun(s, i + 1, esc, esc, tok \o c, quoted, out)
        ELSE \* st = "a"
             IF c \in ShlexWhitespace THEN ShlexRun(s, i + 1, " ", esc, "", FALSE, emit)
             ELSE IF c \in ShlexQuotes THEN ShlexRun(s, i + 1, c, esc, tok, quoted, out)
             ELSE IF c \in ShlexEscape THEN ShlexRun(s, i + 1, c, "a", tok, quoted, out)
             ELSE ShlexRun(s, i + 1, "a", esc, tok \o c, quoted, out)

\* shlex.split(s): [ok |-> TRUE, parts |-> tokens], or ok = FALSE for ValueError
shlex_split(s) == ShlexRun(s, 1, " ", "a", "", FALSE, <<>>)

-----------------------------------------------------------------------------
(* Rule store: cli.load_rules *)

DANGEROUS_PATTERNS == <<"rm -rf /", "rm -rf /*", "mkfs", "dd if=">>

DEFAULT_AUTO_COMMANDS ==
    <<"ls", "pwd", "cd", "cat", "head", "tail", "cp", "mv", "touch", "mkdir",
      "grep", "find", "whoami", "date", "uptime">>

\* Python: s.strip()
RECURSIVE lstrip(_)
lstrip(s) == IF Len(s) > 0 /\ CharAt(s, 1) \in ShlexWhitespace
             THEN lstrip(SubSeq(s, 2, Len(s))) ELSE s
RECURSIVE rstrip(_)
rstrip(s) == IF Len(s) > 0 /\ CharAt(s, Len(s)) \in ShlexWhitespace
             THEN rstrip(SubSeq(s, 1, Len(s) - 1)) ELSE s
strip(s) == rstrip(lstrip(s))

\* Python: list(dict.fromkeys(xs)): duplicates removed, first occurrence kept
RECURSIVE DedupFrom(_, _, _)
DedupFrom(xs, i, out) ==
    IF i > Len(xs) THEN out
    ELSE DedupFrom(xs, i + 1, IF xs[i] \in Range(out) THEN out ELSE Append(out, xs[i]))

\* Variant: duplicates removed, the last occurrence kept
Dedup_keep_last(xs) ==
    LET kept == {i \in DOMAIN xs : \A j \in DOMAIN xs : j > i => xs[j] # xs[i]}
        F[n \in 0..Len(xs)] ==
            IF n = 0 THEN <<>>
            ELSE IF n \in kept THEN Append(F[n - 1], xs[n]) ELSE F[n - 1]
    IN  F[Len(xs)]

Dedup(xs) == DedupFrom(xs, 1, <<>>)

\* The entries a whitelist file contributes: stripped, non-empty, not a # comment
RECURSIVE WhitelistEntries(_, _)
WhitelistEntries(lines, i) ==
    IF i > Len(lines) THEN <<>>
    ELSE LET cmd == strip(lines[i])
         IN  (IF cmd # "" /\ ~StartsWith(cmd, "#") THEN <<cmd>> ELSE <<>>)
             \o WhitelistEntries(lines, i + 1)

\* What one YAML source adds to the auto list:
\* data.get("auto", []) or data.get("whitelist", []) or []
YamlAuto(doc) == IF doc.auto # <<>> THEN doc.auto ELSE doc.whitelist

\* A YAML source contributes only when it exists and loads as a mapping;
\* otherwise it is skipped.
Reads(doc) == doc.exists /\ doc.ok

\* The keys of a source in the order load_rules extends the lists with them
RuleKeys == <<"blocked", "confirm", "auto">>

\* The list of key k is extended with the source's unless an exception has
\* ended the work on the source at k or at a key before it
Extends(doc, k) ==
    /\ Reads(doc)
    /\ \A i \in DOMAIN RuleKeys :
         doc.raises = RuleKeys[i] => \E j \in 1..(i - 1) : RuleKeys[j] = k

load_rules(fl) ==
    LET srcs == <<fl.safety, fl.prefs>>
        add(k) == (IF Extends(srcs[1], k) THEN srcs[1][k] ELSE <<>>)
                  \o (IF Extends(srcs[2], k) THEN srcs[2][k] ELSE <<>>)
        yauto == (IF Extends(srcs[1], "auto") THEN YamlAuto(srcs[1]) ELSE <<>>)
                 \o (IF Extends(srcs[2], "auto") THEN YamlAuto(srcs[2]) ELSE <<>>)
        wl == IF fl.whitelist.exists THEN WhitelistEntries(fl.whitelist.lines, 1) ELSE <<>>
    IN  [blocked |-> add("blocked"),
         confirm |-> add("confirm"),
         auto |-> Dedup((DEFAULT_AUTO_COMMANDS \o yauto) \o wl)]

-----------------------------------------------------------------------------
(* Command classifier: cli.check_command_rules *)

\* for pat in pats: if pat and pat in command
MatchesAny(pats, cmd) == \E i \in DOMAIN pats : pats[i] # "" /\ StrIn(pats[i], cmd)

\* for pat in DANGEROUS_PATTERNS: if pat in command
MatchesDangerous(cmd) == \E i \in DOMAIN DANGEROUS_PATTERNS : StrIn(DANGEROUS_PATTERNS[i], cmd)

\* parts = shlex.split(command); parts and parts[0] in rules["auto"]
\* "ValueError" stands for the exception shlex.split raises, which
\* check_command_rules does not catch; "None" for the return value None.
AutoVerdict(cmd, rl) ==
    LET sp == shlex_split(cmd)
    IN  IF ~sp.ok THEN "ValueError"
        ELSE IF sp.parts # <<>> /\ sp.parts[1] \in Range(rl.auto) THEN "auto"
        ELSE "None"

\* Variant: the dangerous patterns are tried before the blocked list
check_command_rules_danger_first(cmd, rl) ==
    IF MatchesDangerous(cmd) THEN "danger"
    ELSE IF MatchesAny(rl.blocked, cmd) THEN "block"
    ELSE IF MatchesAny(rl.confirm, cmd) THEN "confirm"
    ELSE AutoVerdict(cmd, rl)

\* Variant: the confirm list is tried before the dangerous patterns
check_command_rules_confirm_first(cmd, rl) ==
    IF MatchesAny(rl.blocked, cmd) THEN "block"
    ELSE IF MatchesAny(rl.confirm, cmd) THEN "confirm"
    ELSE IF MatchesDangerous(cmd) THEN "danger"
    ELSE AutoVerdict(cmd, rl)

\* Variant: the auto list is tried before the confirm list
check_command_rules_auto_first(cmd, rl) ==
    IF MatchesAny(rl.blocked, cmd) THEN "block"
    ELSE IF MatchesDangerous(cmd) THEN "danger"
    ELSE IF AutoVerdict(cmd, rl) = "auto" THEN "auto"
    ELSE IF MatchesAny(rl.confirm, cmd) THEN "confirm"
    ELSE AutoVerdict(cmd, rl)

check_command_rules(cmd, rl) ==
    IF MatchesAny(rl.blocked, cmd) THEN "block"
    ELSE IF MatchesDangerous(cmd) THEN "danger"
    ELSE IF MatchesAny(rl.confirm, cmd) THEN "confirm"
    ELSE AutoVerdict(cmd, rl)

-----------------------------------------------------------------------------
(* Paths and the filesystem, as os.path sees them *)

\* Python: p.split("/") from position i, cur being the component under way
RECURSIVE SplitSlash(_, _, _, _)
SplitSlash(p, i, cur, out) ==
    IF i > Len(p) THEN Append(out, cur)
    ELSE IF CharAt(p, i) = "/" THEN SplitSlash(p, i + 1, "", Append(out, cur))
    ELSE SplitSlash(p, i + 1, cur \o CharAt(p, i), out)

\* posixpath.normpath: the loop over the components
RECURSIVE NormComps(_, _, _, _)
NormComps(comps, i, abs, out) ==
    IF i > Len(comps) THEN out
    ELSE LET c == comps[i]
         IN  IF c = "" \/ c = "." THEN NormComps(comps, i + 1, abs, out)
             ELSE IF c # ".." \/ (~abs /\ out = <<>>)
                     \/ (out # <<>> /\ out[Len(out)] = "..")
                  THEN NormComps(comps, i + 1, abs, Append(out, c))
             ELSE IF out # <<>>
                  THEN NormComps(comps, i + 1, abs, SubSeq(out, 1, Len(out) - 1))
             ELSE NormComps(comps, i + 1, abs, out)

RECURSIVE JoinSlash(_, _)
JoinSlash(comps, i) ==
    IF i > Len(comps) THEN ""
    ELSE IF i = Len(comps) THEN comps[i]
    ELSE (comps[i] \o "/") \o JoinSlash(comps, i + 1)

\* posixpath.normpath(p)
normpath(p) ==
    IF p = "" THEN "."
    ELSE LET abs == StartsWith(p, "/")
             lead == IF abs /\ StartsWith(p, "//") /\ ~StartsWith(p, "///") THEN "//"
                     ELSE IF abs THEN "/" ELSE ""
             body == JoinSlash(NormComps(SplitSlash(p, 1, "", <<>>), 1, abs, <<>>), 1)
         IN  IF lead \o body = "" THEN "." ELSE lead \o body

\* os.path.isabs(p)
isabs(p) == StartsWith(p, "/")

\* os.path.join(a, p)
path_join(a, p) ==
    IF isabs(p) THEN p
    ELSE IF a = "" \/ CharAt(a, Len(a)) = "/" THEN a \o p
    ELSE (a \o "/") \o p

\* os.path.abspath(p) for an absolute p
abspath(p) == normpath(p)

\* The path the component stack cur names
PathOf(cur) == "/" \o JoinSlash(cur, 1)

\* Path resolution as the operating system does it, component by component:
\* every component is looked up in the entry reached so far, which must be a
\* directory ("nosuch/.." and "a.txt/" resolve to nothing).  With create, a
\* missing component is made a directory (os.mkdir).  at is the entry reached,
\* as a stack of names; ok is FALSE when the walk fails on the way.
RECURSIVE Walk(_, _, _, _, _)
Walk(f, comps, i, cur, create) ==
    IF i > Len(comps) THEN [ok |-> TRUE, at |-> cur, fs |-> f]
    ELSE IF PathOf(cur) \notin DOMAIN f \/ f[PathOf(cur)].kind # "directory"
    THEN [ok |-> FALSE, at |-> cur, fs |-> f]
    ELSE LET c == comps[i]
             nxt == Append(cur, c)
         IN  IF c = "" \/ c = "." THEN Walk(f, comps, i + 1, cur, create)
             ELSE IF c = ".."
             THEN Walk(f, comps, i + 1,
                       IF cur = <<>> THEN cur ELSE SubSeq(cur, 1, Len(cur) - 1), create)
             ELSE IF PathOf(nxt) \in DOMAIN f THEN Walk(f, comps, i + 1, nxt, create)
             ELSE IF create
             THEN Walk([q \in DOMAIN f \cup {PathOf(nxt)} |->
                          IF q = PathOf(nxt) THEN [kind |-> "directory", content |-> ""]
                          ELSE f[q]],
                       comps, i + 1, nxt, create)
             ELSE IF i = Len(comps) THEN [ok |-> TRUE, at |-> nxt, fs |-> f]
             ELSE [ok |-> FALSE, at |-> nxt, fs |-> f]

\* os.stat of an absolute path p: where the walk ends
Stat(f, p) == Walk(f, SplitSlash(p, 1, "", <<>>), 1, <<>>, FALSE)

\* The kind of the entry a path names in filesystem f: "none", "file" or "directory"
KindOf(f, p) ==
    LET w == Stat(f, p)
    IN  IF w.ok /\ PathOf(w.at) \in DOMAIN f THEN f[PathOf(w.at)].kind ELSE "none"

\* os.path.exists(p), os.path.isdir(p)
path_exists(f, p) == KindOf(f, p) # "none"
path_isdir(f, p) == KindOf(f, p) = "directory"

-----------------------------------------------------------------------------
(* Knowledge base: cli.update_knowledge *)

\* json.dump / json.load of a bool
json_bool(b) == IF b THEN "true" ELSE "false"
bool_json(j) == j = "true"

\* json.dump(data, f): the file content that holds the knowledge base
dump_knowledge(kb) ==
    [state |-> "json",
     data |-> [system |-> kb.system,
               commands |-> [i \in DOMAIN kb.commands |->
                               [command |-> kb.commands[i].command,
                                output |-> kb.commands[i].output,
                                success |-> json_bool(kb.commands[i].success)]],
               stats |-> kb.stats,
               paths |-> kb.paths]]

\* Variant: both counters of the command are incremented
BumpStats_both(stats, cmd, success) ==
    LET old == IF cmd \in DOMAIN stats THEN stats[cmd] ELSE [success |-> 0, failure |-> 0]
    IN  [c \in DOMAIN stats \cup {cmd} |->
            IF c = cmd THEN [success |-> old.success + 1, failure |-> old.failure + 1]
            ELSE stats[c]]

\* Variant: the entry of the command is made anew on every update
BumpStats_anew(stats, cmd, success) ==
    [c \in DOMAIN stats \cup {cmd} |->
        IF c = cmd THEN [success |-> IF success THEN 1 ELSE 0,
                         failure |-> IF success THEN 0 ELSE 1]
        ELSE stats[c]]

\* data.setdefault("stats", {}).setdefault(command, {...}); entry[...] += 1
BumpStats(stats, cmd, success) ==
    LET old == IF cmd \in DOMAIN stats THEN stats[cmd] ELSE [success |-> 0, failure |-> 0]
        bumped == IF success THEN [old EXCEPT !.success = @ + 1]
                  ELSE [old EXCEPT !.failure = @ + 1]
    IN  [c \in DOMAIN stats \cup {cmd} |-> IF c = cmd THEN bumped ELSE stats[c]]

\* found: for tok in tokens[1:], not a flag, resolved against CURRENT_DIR, existing
RECURSIVE FoundPaths(_, _, _, _)
FoundPaths(tokens, i, cwd, f) ==
    IF i > Len(tokens) THEN <<>>
    ELSE LET tok == tokens[i]
             p == IF isabs(tok) THEN tok ELSE path_join(cwd, tok)
         IN  (IF ~StartsWith(tok, "-") /\ path_exists(f, p) THEN <<abspath(p)>> ELSE <<>>)
             \o FoundPaths(tokens, i + 1, cwd, f)

\* Variant: every path found is recorded as a file
RecordPaths_all_files(paths, found, f, success) ==
    [p \in DOMAIN paths \cup Range(found) |->
        IF p \in Range(found) THEN "file" ELSE paths[p]]

\* paths[p] = "directory" if os.path.isdir(p) else "file", for p in found;
\* then, if not success, del paths[p] for each p in found that no longer exists
RecordPaths(paths, found, f, success) ==
    LET fset == Range(found)
        gone == IF success THEN {} ELSE {p \in fset : ~path_exists(f, p)}
    IN  [p \in (DOMAIN paths \cup fset) \ gone |->
            IF p \in fset THEN (IF path_isdir(f, p) THEN "directory" ELSE "file")
            ELSE paths[p]]

\* update_knowledge(path, data, command, output, success): the new data
update_knowledge(kb, cmd, output, success, cwd, f) ==
    LET sp == shlex_split(cmd)
        tokens == IF sp.ok THEN sp.parts ELSE <<>>
        found == FoundPaths(tokens, 2, cwd, f)
    IN  [system |-> kb.system,
         commands |-> Append(kb.commands,
                             [command |-> cmd, output |-> output, success |-> success]),
         stats |-> BumpStats(kb.stats, cmd, success),
         paths |-> RecordPaths(kb.paths, found, f, success)]

-----------------------------------------------------------------------------
(* Plan persistence: planner.PlanStep, save_plan, load_plan *)

\* Optional[bool]: <<>> is None, <<b>> is the bool b
None == <<>>
Some(b) == <<b>>

\* PlanStep(description, command): status "pending", output "", success None
PlanStep(description, cmd) ==
    [description |-> description, command |-> cmd, status |-> "pending",
     output |-> "", success |-> None]

\* Variant: a success of None is written as false
asdict_null_as_false(s) ==
    [description |-> s.description, command |-> s.command, status |-> s.status,
     output |-> s.output,
     success |-> IF s.success = None THEN "false" ELSE json_bool(s.success[1])]

\* dataclasses.asdict(s) as json.dump writes it
asdict(s) ==
    [description |-> s.description, command |-> s.command, status |-> s.status,
     output |-> s.output,
     success |-> IF s.success = None THEN "null" ELSE json_bool(s.success[1])]

PlanStepFields == {"description", "command", "status", "output", "success"}

\* PlanStep(**d) takes the JSON object d: it has no key that is not a field,
\* and the two fields without a default are there; else TypeError
Accepts(d) ==
    DOMAIN d \subseteq PlanStepFields /\ {"description", "command"} \subseteq DOMAIN d

\* PlanStep(**d) on a JSON object PlanStep takes: a missing status, output or
\* success gets its default
FromDict(d) ==
    [description |-> d.description, command |-> d.command,
     status |-> IF "status" \in DOMAIN d THEN d.status ELSE "pending",
     output |-> IF "output" \in DOMAIN d THEN d.output ELSE "",
     success |-> IF "success" \notin DOMAIN d \/ d.success = "null" THEN None
                 ELSE Some(bool_json(d.success))]

\* save_plan(path, steps): the content the plan file is overwritten with
save_plan(ss) == [state |-> "json", data |-> [i \in DOMAIN ss |-> asdict(ss[i])]]

\* The entries of a JSON array that PlanStep takes, in order
RECURSIVE TakenFrom(_, _)
TakenFrom(data, i) ==
    IF i > Len(data) THEN <<>>
    ELSE (IF Accepts(data[i]) THEN <<FromDict(data[i])>> ELSE <<>>) \o TakenFrom(data, i + 1)

\* Variant: an entry PlanStep does not take is left out, the others are returned
load_plan_keep_valid(file) ==
    [raised |-> FALSE,
     steps |-> IF file.state = "json" THEN TakenFrom(file.data, 1) ELSE <<>>]

\* load_plan(path): [] when the file is missing; [] as well when json.load
\* rejects the content ("text"), when the document is not a list ("json_scalar")
\* or when PlanStep(**d) rejects an entry, all of which raise inside the try
\* block and are caught.  raised: an exception reaches the caller.
load_plan(file) ==
    [raised |-> FALSE,
     steps |-> IF file.state = "json" /\ \A i \in DOMAIN file.data : Accepts(file.data[i])
               THEN [i \in DOMAIN file.data |-> FromDict(file.data[i])]
               ELSE <<>>]

-----------------------------------------------------------------------------
(* Command runner: cli.run_command, as far as the plan executor sees it *)

\* What the operator may type at a prompt
Answers == {"", "n", " N ", "y", "yes", "YES ", "no"}

\* Python: s.lower(), over the letters an answer is made of
LowerChar(c) ==
    CASE c = "N" -> "n" [] c = "Y" -> "y" [] c = "E" -> "e" [] c = "S" -> "s"
      [] c = "O" -> "o" [] c = "U" -> "u" [] OTHER -> c
RECURSIVE lower(_)
lower(s) == IF s = "" THEN "" ELSE LowerChar(CharAt(s, 1)) \o lower(SubSeq(s, 2, Len(s)))

\* What a command may print
Outputs == {"hi\n"}

\* os.path.expanduser("~")
HomeDir == "/srv"

\* posixpath.dirname(p): the part before the last slash, trailing slashes removed
RECURSIVE LastSlash(_, _)
LastSlash(p, i) == IF i = 0 \/ CharAt(p, i) = "/" THEN i ELSE LastSlash(p, i - 1)
RECURSIVE rstrip_slash(_)
rstrip_slash(s) == IF Len(s) > 0 /\ CharAt(s, Len(s)) = "/"
                   THEN rstrip_slash(SubSeq(s, 1, Len(s) - 1)) ELSE s
dirname(p) ==
    LET head == SubSeq(p, 1, LastSlash(p, Len(p)))
    IN  IF rstrip_slash(head) # "" THEN rstrip_slash(head) ELSE head

\* Python: " ".join(parts)
RECURSIVE JoinSpace(_, _)
JoinSpace(parts, i) ==
    IF i > Len(parts) THEN ""
    ELSE IF i = Len(parts) THEN parts[i]
    ELSE (parts[i] \o " ") \o JoinSpace(parts, i + 1)

\* os.makedirs(name, exist_ok=True): every missing directory on the way is made;
\* it raises when a component or name itself is a file
makedirs(f, name) ==
    LET w == Walk(f, SplitSlash(name, 1, "", <<>>), 1, <<>>, TRUE)
    IN  [ok |-> w.ok /\ w.fs[PathOf(w.at)].kind = "directory", fs |-> w.fs]

\* with open(path, "w") as f: f.write(content): the file is created or
\* truncated; it raises when path names a directory or its parent is missing
open_w(f, path, content) ==
    LET w == Stat(f, path)
        q == PathOf(w.at)
    IN  IF ~w.ok \/ (q \in DOMAIN f /\ f[q].kind = "directory")
        THEN [ok |-> FALSE, fs |-> f]
        ELSE [ok |-> TRUE,
              fs |-> [x \in DOMAIN f \cup {q} |->
                        IF x = q THEN [kind |-> "file", content |-> content] ELSE f[x]]]

\* What run_command leaves: the pair it returns, or an exception (raised), the
\* session directory, the filesystem, and the directory an external command
\* was started in ("" when none was started)
RunResult(output, success, cwd, f, exec_dir) ==
    [raised |-> FALSE, output |-> output, success |-> success, cwd |-> cwd, fs |-> f,
     exec_dir |-> exec_dir]
RunRaised(cwd, f) ==
    [raised |-> TRUE, output |-> "", success |-> FALSE, cwd |-> cwd, fs |-> f,
     exec_dir |-> ""]

\* Variant: cd reports success but the session directory stays
run_cd_keeps_dir(parts, cwd, f) ==
    LET arg == IF Len(parts) > 1 THEN parts[2] ELSE HomeDir
        target == IF isabs(arg) THEN arg ELSE path_join(cwd, arg)
    IN  IF path_isdir(f, target) THEN RunResult("", TRUE, cwd, f, "")
        ELSE RunResult("cd: no such file or directory: " \o target, FALSE, cwd, f, "")

\* if parts and parts[0] == "cd": ...
run_cd(parts, cwd, f) ==
    LET arg == IF Len(parts) > 1 THEN parts[2] ELSE HomeDir
        target == IF isabs(arg) THEN arg ELSE path_join(cwd, arg)
    IN  IF path_isdir(f, target) THEN RunResult("", TRUE, abspath(target), f, "")
        ELSE RunResult("cd: no such file or directory: " \o target, FALSE, cwd, f, "")

\* Variant: edit moves the session into the directory of the file it wrote
run_edit_chdir(parts, cwd, f) ==
    IF Len(parts) < 3 THEN RunResult("edit usage: edit <file> <content>", FALSE, cwd, f, "")
    ELSE LET path == IF isabs(parts[2]) THEN parts[2] ELSE path_join(cwd, parts[2])
             content == JoinSpace(SubSeq(parts, 3, Len(parts)), 1)
             made == makedirs(f, dirname(path))
             wrote == open_w(made.fs, path, content)
         IN  IF ~made.ok \/ ~wrote.ok THEN RunRaised(cwd, made.fs)
             ELSE RunResult("", TRUE, dirname(path), wrote.fs, "")

\* if parts and parts[0] == "edit": the usage test, then os.makedirs of the
\* directory of the path and the file written; an exception of makedirs or of
\* open leaves run_command, with the directories made so far left behind
run_edit(parts, cwd, f) ==
    IF Len(parts) < 3 THEN RunResult("edit usage: edit <file> <content>", FALSE, cwd, f, "")
    ELSE LET path == IF isabs(parts[2]) THEN parts[2] ELSE path_join(cwd, parts[2])
             content == JoinSpace(SubSeq(parts, 3, Len(parts)), 1)
             made == makedirs(f, dirname(path))
             wrote == open_w(made.fs, path, content)
         IN  IF ~made.ok \/ ~wrote.ok THEN RunRaised(cwd, made.fs)
             ELSE RunResult("", TRUE, cwd, wrote.fs, "")

\* What the child process of an external command may do: the bytes it writes
\* to the pipe, its exit code and the filesystem it leaves.  printf writes a
\* line that ends in CR LF; rm may remove the files its arguments name.  No
\* child is started for a built-in or for a command that cannot be tokenized.
Processes(cmd, cwd, f) ==
    LET sp == shlex_split(strip(cmd))
        parts == IF sp.ok THEN sp.parts ELSE <<>>
        verb == IF parts # <<>> THEN parts[1] ELSE ""
        named == {q \in {abspath(path_join(cwd, parts[i])) : i \in 2..Len(parts)} :
                    q \in DOMAIN f /\ f[q].kind = "file"}
        raws == IF verb = "printf" THEN {"a\r\nb\n"} ELSE Outputs
        after == IF verb = "rm" THEN {f, [q \in DOMAIN f \ named |-> f[q]]} ELSE {f}
    IN  IF ~sp.ok \/ verb \in {"cd", "edit"} THEN {[raw |-> "", code |-> 0, fs |-> f]}
        ELSE {[raw |-> r, code |-> c, fs |-> g] : r \in raws, c \in {0, 1}, g \in after}

\* What a text-mode pipe (subprocess.Popen(..., text=True)) hands to its
\* reader: CR LF and a lone CR are read as LF
RECURSIVE universal_newlines(_)
universal_newlines(s) ==
    IF s = "" THEN ""
    ELSE IF CharAt(s, 1) = "\r"
    THEN "\n" \o universal_newlines(IF Len(s) > 1 /\ CharAt(s, 2) = "\n"
                                    THEN SubSeq(s, 3, Len(s)) ELSE SubSeq(s, 2, Len(s)))
    ELSE CharAt(s, 1) \o universal_newlines(SubSeq(s, 2, Len(s)))

\* The external command: the child is started in cwd (which must be a
\* directory, else Popen raises), its output is collected line by line and
\* joined again, success = (process.returncode == 0)
run_external(cwd, f, proc, text) ==
    IF ~path_isdir(f, cwd) THEN RunRaised(cwd, f)
    ELSE RunResult(text, proc.code = 0, cwd, proc.fs, cwd)

\* run_command(command): shlex.split(command.strip()) raises ValueError when
\* the command cannot be tokenized; cd and edit are built in; any other command
\* goes to the shell, its output read through a text-mode pipe
run_command(cmd, cwd, f, proc) ==
    LET sp == shlex_split(strip(cmd))
    IN  IF ~sp.ok THEN RunRaised(cwd, f)
        ELSE IF sp.parts # <<>> /\ sp.parts[1] = "cd" THEN run_cd(sp.parts, cwd, f)
        ELSE IF sp.parts # <<>> /\ sp.parts[1] = "edit" THEN run_edit(sp.parts, cwd, f)
        ELSE run_external(cwd, f, proc, universal_newlines(proc.raw))

\* run_command_async(command): the same built-ins; the output of an external
\* command is read as bytes, line by line, and each line decoded
run_command_async(cmd, cwd, f, proc) ==
    LET sp == shlex_split(strip(cmd))
    IN  IF ~sp.ok THEN RunRaised(cwd, f)
        ELSE IF sp.parts # <<>> /\ sp.parts[1] = "cd" THEN run_cd(sp.parts, cwd, f)
        ELSE IF sp.parts # <<>> /\ sp.parts[1] = "edit" THEN run_edit(sp.parts, cwd, f)
        ELSE run_external(cwd, f, proc, proc.raw)

-----------------------------------------------------------------------------
(* Plan executor: planner.execute_plan *)

LogEntry(op, idx, cmd, warned) == [op |-> op, idx |-> idx, command |-> cmd, warned |-> warned]

\* pc: the statement execute_plan is at; i: the loop index; declined: the index of
\* the step the operator declined in this call (0: none); n: calls so far;
\* base: length of the log when this call began
EpIdle == [pc |-> "idle", i |-> 0, confirm_each_step |-> FALSE, output |-> "",
           success |-> FALSE, declined |-> 0, n |-> 0, base |-> 0]

Snapshot == [steps |-> steps, knowledge |-> knowledge, knowledge_file |-> knowledge_file,
             plan_file |-> plan_file]

ep_unchanged_env == UNCHANGED <<files, rules, command, action, mn, CURRENT_DIR, fs, call>>

\* The call: execute_plan(steps, plan_file, knowledge, knowledge_file,
\*                        run_command, update_knowledge, confirm_each_step)
EpCall(confirm) ==
    /\ ep' = [pc |-> "for", i |-> 1, confirm_each_step |-> confirm, output |-> "",
              success |-> FALSE, declined |-> 0, n |-> ep.n + 1, base |-> Len(log)]
    /\ entry' = Snapshot

\* Variant: the status test is missing, every step is taken up
EpForNext_no_skip(e, ss) ==
    IF e.i > Len(ss) THEN [e EXCEPT !.pc = "returned"]
    ELSE [e EXCEPT !.pc = IF e.confirm_each_step THEN "ask" ELSE "run"]

\* for step in steps: if step.status != "pending": continue
\* and the test of confirm_each_step for a pending step
EpForNext(e, ss) ==
    IF e.i > Len(ss) THEN [e EXCEPT !.pc = "returned"]
    ELSE IF ss[e.i].status # "pending" THEN [e EXCEPT !.i = @ + 1]
    ELSE [e EXCEPT !.pc = IF e.confirm_each_step THEN "ask" ELSE "run"]

EpFor ==
    /\ ep.pc = "for"
    /\ ep' = EpForNext(ep, steps)
    /\ UNCHANGED <<steps, entry, plan_file, knowledge, knowledge_file, log>>
    /\ ep_unchanged_env

\* ans = input_fn(...).strip().lower(); if ans == "n": step.status = "pending"
EpAskNext(ans) == IF lower(strip(ans)) = "n" THEN "pause" ELSE "run"

EpAsk ==
    /\ ep.pc = "ask"
    /\ \E ans \in Answers :
         /\ ep' = [ep EXCEPT !.pc = EpAskNext(ans),
                              !.declined = IF EpAskNext(ans) = "pause" THEN ep.i ELSE @]
         /\ steps' = IF EpAskNext(ans) = "pause"
                     THEN [steps EXCEPT ![ep.i].status = "pending"] ELSE steps
    /\ UNCHANGED <<entry, plan_file, knowledge, knowledge_file, log>>
    /\ ep_unchanged_env

\* Variant: continue in place of break, the loop goes on to the next step
EpAfterPause_continue(e) == [e EXCEPT !.pc = "for", !.i = @ + 1]

\* break: the loop is left and execute_plan returns
EpAfterPause(e) == [e EXCEPT !.pc = "returned"]

\* save_plan(plan_path, steps); break        (the decline branch)
EpPauseSave ==
    /\ ep.pc = "pause"
    /\ plan_file' = save_plan(steps)
    /\ log' = Append(log, LogEntry("save", ep.i, steps[ep.i].command, FALSE))
    /\ ep' = EpAfterPause(ep)
    /\ UNCHANGED <<steps, entry, knowledge, knowledge_file>>
    /\ ep_unchanged_env

\* run_command_fn(step.command) is entered
EpRun ==
    /\ ep.pc = "run"
    /\ log' = Append(log, LogEntry("run", ep.i, steps[ep.i].command, FALSE))
    /\ ep' = [ep EXCEPT !.pc = "running"]
    /\ UNCHANGED <<steps, entry, plan_file, knowledge, knowledge_file>>
    /\ ep_unchanged_env

\* output, success = run_command_fn(step.command); an exception of the runner
\* leaves execute_plan at once
EpRunEnd ==
    /\ ep.pc = "running"
    /\ \E proc \in Processes(steps[ep.i].command, CURRENT_DIR, fs) :
         LET r == run_command(steps[ep.i].command, CURRENT_DIR, fs, proc)
         IN  /\ ep' = IF r.raised THEN [ep EXCEPT !.pc = "raised"]
                      ELSE [ep EXCEPT !.pc = "record", !.output = r.output,
                                      !.success = r.success]
             /\ log' = Append(log, LogEntry(IF r.raised THEN "raise" ELSE "ret", ep.i,
                                            steps[ep.i].command, FALSE))
             /\ CURRENT_DIR' = r.cwd
             /\ fs' = r.fs
    /\ UNCHANGED <<steps, entry, plan_file, knowledge, knowledge_file>>
    /\ UNCHANGED <<files, rules, command, action, mn, call>>

\* step.output = output; step.success = success;
\* step.status = "done" if success else "failed"
RecordStep(step, output, success) ==
    [step EXCEPT !.output = output, !.success = Some(success),
                 !.status = IF success THEN "done" ELSE "failed"]

\* Variant: the call of update_knowledge_fn is missing
EpAfterRecord_no_update(e) == [e EXCEPT !.pc = "save"]

\* the statement after the step's fields are set: update_knowledge_fn(...)
EpAfterRecord(e) == [e EXCEPT !.pc = "update"]

EpRecord ==
    /\ ep.pc = "record"
    /\ steps' = [steps EXCEPT ![ep.i] = RecordStep(@, ep.output, ep.success)]
    /\ ep' = EpAfterRecord(ep)
    /\ UNCHANGED <<entry, plan_file, knowledge, knowledge_file, log>>
    /\ ep_unchanged_env

\* Variant: the update changes the knowledge base in memory, the file is not written
EpUpdate_memory_only ==
    /\ ep.pc = "update"
    /\ knowledge' = update_knowledge(knowledge, steps[ep.i].command, ep.output,
                                     ep.success, CURRENT_DIR, fs)
    /\ log' = Append(log, LogEntry("update", ep.i, steps[ep.i].command, FALSE))
    /\ ep' = [ep EXCEPT !.pc = "save"]
    /\ UNCHANGED <<steps, entry, plan_file, knowledge_file>>
    /\ ep_unchanged_env

\* update_knowledge_fn(knowledge_path, knowledge, step.command, output, success)
EpUpdate ==
    /\ ep.pc = "update"
    /\ knowledge' = update_knowledge(knowledge, steps[ep.i].command, ep.output,
                                     ep.success, CURRENT_DIR, fs)
    /\ knowledge_file' = dump_knowledge(knowledge')
    /\ log' = Append(log, LogEntry("update", ep.i, steps[ep.i].command, FALSE))
    /\ ep' = [ep EXCEPT !.pc = "save"]
    /\ UNCHANGED <<steps, entry, plan_file>>
    /\ ep_unchanged_env

\* Variant: the break after a failed step is missing
EpAfterSave_no_break(e) == [e EXCEPT !.pc = "for", !.i = @ + 1]

\* after save_plan: if not success: break; else the next iteration
EpAfterSave(e) ==
    IF ~e.success THEN [e EXCEPT !.pc = "returned"]
    ELSE [e EXCEPT !.pc = "for", !.i = @ + 1]

\* Variant: the plan is not written after a step
EpSave_not_saved ==
    /\ ep.pc = "save"
    /\ log' = Append(log, LogEntry("save", ep.i, steps[ep.i].command, FALSE))
    /\ ep' = EpAfterSave(ep)
    /\ UNCHANGED <<steps, entry, plan_file, knowledge, knowledge_file>>
    /\ ep_unchanged_env

\* save_plan(plan_path, steps); if not success: break
EpSave ==
    /\ ep.pc = "save"
    /\ plan_file' = save_plan(steps)
    /\ log' = Append(log, LogEntry("save", ep.i, steps[ep.i].command, FALSE))
    /\ ep' = EpAfterSave(ep)
    /\ UNCHANGED <<steps, entry, knowledge, knowledge_file>>
    /\ ep_unchanged_env

ExecutePlan ==
    EpFor \/ EpAsk \/ EpPauseSave \/ EpRun \/ EpRunEnd \/ EpRecord \/ EpUpdate \/ EpSave

-----------------------------------------------------------------------------
(* Initial values *)

\* A YAML rule source: missing, not loadable, or a mapping with list keys;
\* raises names the key whose value is not a list (extend raises on it), "" if
\* there is none
NoDoc == [exists |-> FALSE, ok |-> FALSE, blocked |-> <<>>, confirm |-> <<>>,
          auto |-> <<>>, whitelist |-> <<>>, raises |-> ""]
BadDoc == [NoDoc EXCEPT !.exists = TRUE]
Doc(blocked, confirm, auto, whitelist) ==
    [exists |-> TRUE, ok |-> TRUE, blocked |-> blocked, confirm |-> confirm,
     auto |-> auto, whitelist |-> whitelist, raises |-> ""]

NoWhitelist == [exists |-> FALSE, lines |-> <<>>]
Whitelist(lines) == [exists |-> TRUE, lines |-> lines]

SafetyDocs ==
    {NoDoc, BadDoc,
     Doc(<<"">>, <<>>, <<>>, <<>>),
     Doc(<<"rm -rf", "-la">>, <<"mkfs">>, <<>>, <<>>),
     [Doc(<<"x">>, <<>>, <<"vim", "pwd">>, <<>>) EXCEPT !.raises = "confirm"]}

PrefsDocs ==
    {NoDoc,
     Doc(<<>>, <<"apt install", "ls ">>, <<"sudo", "ls">>, <<"x">>),
     Doc(<<>>, <<"">>, <<>>, <<"sudo">>)}

WhitelistFiles == {NoWhitelist, Whitelist(<<"# tools", " sudo ", "", "ls">>)}

RuleFiles ==
    {[safety |-> sd, prefs |-> pd, whitelist |-> wl] :
        sd \in SafetyDocs, pd \in PrefsDocs, wl \in WhitelistFiles}

NoRuleFiles == [safety |-> NoDoc, prefs |-> NoDoc, whitelist |-> NoWhitelist]

\* The pieces commands are made of
Fragments ==
    {"ls ", "sudo ", "-la", "rm -rf /", "*", "mkfs", "dd if=", "apt install", "'", "x"}

RECURSIVE CommandsOf(_)
CommandsOf(n) ==
    IF n = 0 THEN {""}
    ELSE LET shorter == CommandsOf(n - 1)
         IN  shorter \cup {c \o f : c \in shorter, f \in Fragments}

\* Commands that start an interactive editor
EditorCommands == {"nano file.txt", "vim file.txt"}

Commands == CommandsOf(MaxFrags) \cup EditorCommands

\* gather_system_info(), load_knowledge on a missing file
SystemInfo == [os |-> "Linux"]
FreshKnowledge == [system |-> SystemInfo, commands |-> <<>>, stats |-> <<>>, paths |-> <<>>]

StartDir == "/srv/app"
InitFs ==
    [p \in {"/", "/srv", "/srv/app", "/srv/app/sub", "/srv/app/a.txt"} |->
        IF p = "/srv/app/a.txt" THEN [kind |-> "file", content |-> "old"]
        ELSE [kind |-> "directory", content |-> ""]]

\* pc: the statement main is at; args_plan: --plan was given; api_key: the key is
\* set; ret_to: where main goes on after execute_plan; warned: the dangerous-
\* command warning was answered "yes" for the current command; output, success:
\* the runner's result; runs: commands proposed so far; messages: the chat
\* history, by role; reply: the language model's reply in this turn of the
\* loop; shown: the lines printed for it; choice: the line typed at review_plan's
\* prompt and not yet acted on ("<none>" when there is none)
MnIdle == [pc |-> "idle", args_plan |-> FALSE, api_key |-> TRUE, ret_to |-> "exit",
           warned |-> FALSE, output |-> "", success |-> FALSE, runs |-> 0,
           messages |-> <<>>,
           reply |-> [raw |-> "", state |-> "none", data |-> <<>>], shown |-> <<>>,
           choice |-> "<none>"]

\* The steps a plan on disk is made of: fresh ones, and ones an earlier run left
UnquotedCommand == "echo 'hi"
StepPool ==
    {PlanStep("one", "ok"), PlanStep("one", UnquotedCommand),
     RecordStep(PlanStep("one", "ok"), "hi\n", TRUE),
     RecordStep(PlanStep("one", "ok"), "", FALSE)}

RECURSIVE PlansOf(_)
PlansOf(n) ==
    IF n = 0 THEN {<<>>}
    ELSE LET shorter == PlansOf(n - 1)
         IN  shorter \cup {Append(pl, st) : pl \in shorter, st \in StepPool}

InitialPlans == PlansOf(MaxSteps)

MissingFile == [state |-> "missing", data |-> <<>>]

\* The record of a session's last operation, before any operation
NoCall ==
    [op |-> "init", n |-> 0, command |-> "", raised |-> FALSE,
     output |-> "", success |-> FALSE, exec_dir |-> "",
     twin |-> RunResult("", FALSE, StartDir, InitFs, ""),
     cwd0 |-> StartDir, fs0 |-> InitFs, kb0 |-> FreshKnowledge, kf0 |-> MissingFile,
     steps0 |-> <<>>, pf0 |-> MissingFile, gathered |-> 0,
     prev |-> [op |-> "", command |-> "", cwd0 |-> "", success |-> FALSE]]

-----------------------------------------------------------------------------
(* Specification of the classifier: rules loaded, commands classified *)

RulesInit ==
    /\ files \in RuleFiles
    /\ rules = load_rules(files)
    /\ command = ""
    /\ action = "unset"
    /\ steps = <<>> /\ plan_file = MissingFile
    /\ knowledge = FreshKnowledge /\ knowledge_file = dump_knowledge(FreshKnowledge)
    /\ ep = EpIdle /\ mn = MnIdle
    /\ entry = Snapshot
    /\ CURRENT_DIR = StartDir /\ fs = InitFs
    /\ log = <<>>
    /\ call = NoCall

\* action = check_command_rules(command, rules)
Classify ==
    /\ action = "unset"
    /\ \E c \in Commands :
         /\ command' = c
         /\ action' = check_command_rules(c, rules)
    /\ UNCHANGED <<files, rules, steps, entry, plan_file, knowledge, knowledge_file,
                   ep, mn, CURRENT_DIR, fs, log, call>>

RulesNext == Classify

SpecRules == RulesInit /\ [][RulesNext]_vars

-----------------------------------------------------------------------------
(* Specification of the plan executor: a plan on disk or in memory is run *)

PlanInit ==
    /\ files = NoRuleFiles
    /\ rules = load_rules(files)
    /\ command = ""
    /\ action = "unset"
    /\ steps \in InitialPlans
    /\ plan_file \in {MissingFile, save_plan(steps)}
    /\ knowledge = FreshKnowledge /\ knowledge_file = dump_knowledge(FreshKnowledge)
    /\ ep = EpIdle /\ mn = MnIdle
    /\ entry = Snapshot
    /\ CURRENT_DIR = StartDir /\ fs = InitFs
    /\ log = <<>>
    /\ call = NoCall

\* execute_plan is called, for the first time or again on the same plan
PlanInvoke ==
    /\ ep.pc \in {"idle", "returned"}
    /\ ep.n < MaxInvokes
    /\ \E confirm \in BOOLEAN : EpCall(confirm)
    /\ UNCHANGED <<steps, plan_file, knowledge, knowledge_file, log>>
    /\ ep_unchanged_env

PlanNext == PlanInvoke \/ ExecutePlan

SpecPlan == PlanInit /\ [][PlanNext]_vars

-----------------------------------------------------------------------------
(* cli.main: start-up, the plan paths and the interactive loop *)

\* json.load of a knowledge file that holds a JSON object: the keys the object
\* has, the booleans of the command records read back
parse_knowledge(data) ==
    [k \in DOMAIN data |->
        IF k = "commands"
        THEN [i \in DOMAIN data[k] |->
                [command |-> data[k][i].command,
                 output |-> data[k][i].output,
                 success |-> bool_json(data[k][i].success)]]
        ELSE data[k]]

KnowledgeKeys == {"system", "commands", "stats", "paths"}

\* if "system" not in data: data["system"] = gather_system_info()
\* if "commands" not in data: data["commands"] = []   (and so for stats, paths)
BackFill(data, info) ==
    [k \in DOMAIN data \cup KnowledgeKeys |->
        IF k \in DOMAIN data THEN data[k]
        ELSE IF k = "system" THEN info
        ELSE <<>>]

\* Variant: the system info is gathered and stored on every load
load_knowledge_regather(file, info) ==
    LET data == IF file.state = "json" THEN parse_knowledge(file.data) ELSE <<>>
    IN  IF file.state = "json_array"
        THEN [raised |-> TRUE, data |-> <<>>, gathered |-> 1]
        ELSE [raised |-> FALSE,
              data |-> [BackFill(data, info) EXCEPT !["system"] = info],
              gathered |-> 1]

\* load_knowledge(path), info being what gather_system_info() returns when it is
\* called.  A missing file and a file that json.load rejects give data = {};
\* a file that holds a JSON array loads, and data["system"] = ... then raises
\* TypeError, after the system info was gathered and before the file is written.
load_knowledge(file, info) ==
    LET data == IF file.state = "json" THEN parse_knowledge(file.data) ELSE <<>>
    IN  IF file.state = "json_array"
        THEN [raised |-> TRUE, data |-> <<>>, gathered |-> 1]
        ELSE [raised |-> FALSE,
              data |-> BackFill(data, info),
              gathered |-> IF "system" \in DOMAIN data THEN 0 ELSE 1]

\* What the language model may propose as a command ("" is no command)
ReplyCommands == {"", "ls -la", "rm -rf /", "sudo rm x", "ls 'x"}

\* JSON values of a reply: a string, null
Str(s) == [type |-> "string", val |-> s]
Null == [type |-> "null", val |-> ""]

\* No reply yet in this turn of the loop
NoReply == [raw |-> "", state |-> "none", data |-> <<>>]

\* response.choices[0].message["content"]: the text of the reply (raw) and what
\* a JSON parser makes of it: text that is not JSON, an array, objects that
\* lack the command or hold null for it, and complete payloads
Replies ==
    {[raw |-> " not-json ", state |-> "text", data |-> <<>>],
     [raw |-> "[]", state |-> "json_array", data |-> <<>>],
     [raw |-> "{\"explanation\": \"hi\"}", state |-> "json",
      data |-> [explanation |-> Str("hi")]],
     [raw |-> "{\"explanation\": \"hi\", \"command\": null}", state |-> "json",
      data |-> [explanation |-> Str("hi"), command |-> Null]]}
    \cup {[raw |-> ("{\"explanation\": \"do\", \"command\": \"" \o c) \o "\"}",
           state |-> "json",
           data |-> [explanation |-> Str("do"), command |-> Str(c)]] : c \in ReplyCommands}

\* Variant: a reply that does not validate is taken as a command itself
model_validate_json_raw_as_command(reply) ==
    IF /\ reply.state = "json"
       /\ \A k \in {"explanation", "command"} :
            k \in DOMAIN reply.data /\ reply.data[k].type = "string"
    THEN [ok |-> TRUE, explanation |-> reply.data["explanation"].val,
          command |-> reply.data["command"].val]
    ELSE [ok |-> TRUE, explanation |-> "", command |-> strip(reply.raw)]

\* CortanaResponse.model_validate_json(raw): explanation: str, command: str are
\* both required; anything else raises ValidationError (ok = FALSE)
model_validate_json(reply) ==
    IF /\ reply.state = "json"
       /\ \A k \in {"explanation", "command"} :
            k \in DOMAIN reply.data /\ reply.data[k].type = "string"
    THEN [ok |-> TRUE, explanation |-> reply.data["explanation"].val,
          command |-> reply.data["command"].val]
    ELSE [ok |-> FALSE, explanation |-> "", command |-> ""]

\* What generate_plan may return
GeneratedPlans ==
    {<<>>,
     <<PlanStep("one", "ok")>>,
     <<PlanStep("one", "ok"), PlanStep("two", "rm -rf /")>>,
     <<PlanStep("one", "sudo rm x")>>}

\* What the operator may type at the "You: " prompt; "<EOF>" is end of input
UserInputs == {"<EOF>", "exit", " Quit", "new", "plan tidy", "list files"}

\* The rule sources main is started with
MainRuleFiles ==
    {NoRuleFiles,
     [safety |-> Doc(<<"rm ">>, <<"ls -">>, <<>>, <<>>), prefs |-> NoDoc,
      whitelist |-> NoWhitelist]}

\* The plan file main may find at start
MainPlanFiles ==
    {MissingFile,
     save_plan(<<RecordStep(PlanStep("one", "ok"), "", TRUE), PlanStep("two", "rm -rf /")>>),
     save_plan(<<RecordStep(PlanStep("one", "ok"), "", TRUE)>>)}

main_unchanged_plan == UNCHANGED <<steps, entry, plan_file, ep>>
main_unchanged_kb == UNCHANGED <<knowledge, knowledge_file>>
main_unchanged_env == UNCHANGED <<files, CURRENT_DIR, fs, call>>

\* main up to the first prompt: the API key test, load_knowledge, load_rules,
\* then --plan, or a plan file with a pending step, or the loop
MainStart ==
    /\ mn.pc = "start"
    /\ IF ~mn.api_key
       THEN /\ mn' = [mn EXCEPT !.pc = "exit"]
            /\ UNCHANGED <<rules, knowledge, knowledge_file, steps>>
       ELSE IF load_knowledge(knowledge_file, SystemInfo).raised
       THEN /\ mn' = [mn EXCEPT !.pc = "crashed"]
            /\ UNCHANGED <<rules, knowledge, knowledge_file, steps>>
       ELSE /\ knowledge' = load_knowledge(knowledge_file, SystemInfo).data
            /\ knowledge_file' = dump_knowledge(knowledge')
            /\ rules' = load_rules(files)
            /\ IF mn.args_plan
               THEN /\ mn' = [mn EXCEPT !.pc = "generate", !.ret_to = "exit"]
                    /\ UNCHANGED steps
               ELSE IF plan_file.state # "missing"
               THEN /\ steps' = load_plan(plan_file).steps
                    /\ mn' = [mn EXCEPT !.pc =
                                IF \E j \in DOMAIN steps' : steps'[j].status = "pending"
                                THEN "resume_ask" ELSE "loop_start"]
               ELSE /\ mn' = [mn EXCEPT !.pc = "loop_start"]
                    /\ UNCHANGED steps
    /\ UNCHANGED <<command, action, entry, plan_file, ep, log>>
    /\ main_unchanged_env

\* resume = input("Resume pending plan? ..."); if not "n": execute_plan(...); return
MainResumeAsk ==
    /\ mn.pc = "resume_ask"
    /\ \E ans \in Answers :
         IF lower(strip(ans)) # "n"
         THEN /\ EpCall(TRUE)
              /\ mn' = [mn EXCEPT !.pc = "in_plan", !.ret_to = "exit"]
         ELSE /\ mn' = [mn EXCEPT !.pc = "loop_start"]
              /\ UNCHANGED <<ep, entry>>
    /\ UNCHANGED <<rules, command, action, steps, plan_file, log>>
    /\ main_unchanged_kb /\ main_unchanged_env

\* review_plan: steps = generate_plan(task); json.loads(raw), data.get and
\* PlanStep(**s) raise on a reply that is not a plan, and nothing catches it
MainGenerate ==
    /\ mn.pc = "generate"
    /\ \/ /\ \E pl \in GeneratedPlans : steps' = pl
          /\ mn' = [mn EXCEPT !.pc = "review_ask"]
       \/ /\ mn' = [mn EXCEPT !.pc = "crashed"]
          /\ UNCHANGED steps
    /\ UNCHANGED <<rules, command, action, entry, plan_file, ep, log>>
    /\ main_unchanged_kb /\ main_unchanged_env

\* Variant: every answer but 'n' and 'u' approves the plan
ReviewNext_unless_refused(choice) ==
    IF choice = "n" THEN "cancelled"
    ELSE IF choice = "u" THEN "generate"
    ELSE "approved"

\* review_plan: the tests on choice
ReviewNext(choice) ==
    IF choice \in {"", "y", "yes"} THEN "approved"
    ELSE IF choice = "n" THEN "cancelled"
    ELSE IF choice = "u" THEN "generate"
    ELSE "review_ask"

\* What the operator may type at "Approve this plan?"
ReviewAnswers == Answers \cup {"u", " U", "maybe"}

\* review_plan: the plan is shown and input("Approve this plan? ...") returns
MainReviewAsk ==
    /\ mn.pc = "review_ask"
    /\ \E ans \in ReviewAnswers : mn' = [mn EXCEPT !.pc = "review_choice", !.choice = ans]
    /\ UNCHANGED <<rules, command, action, steps, entry, plan_file, ep, log>>
    /\ main_unchanged_kb /\ main_unchanged_env

\* review_plan: choice = (the line).strip().lower() and what follows from it:
\* save_plan and return steps, return None, generate_plan again, or the prompt
\* again; and what review_plan's caller in main does with the result:
\* if steps: execute_plan(..., confirm_each_step=True)
MainReviewAct ==
    /\ mn.pc = "review_choice"
    /\ LET nxt == ReviewNext(lower(strip(mn.choice)))
           m == [mn EXCEPT !.choice = "<none>"]
       IN  IF nxt = "approved"
           THEN /\ plan_file' = save_plan(steps)
                /\ IF steps # <<>>
                   THEN /\ EpCall(TRUE)
                        /\ mn' = [m EXCEPT !.pc = "in_plan"]
                   ELSE /\ mn' = [m EXCEPT !.pc = mn.ret_to]
                        /\ UNCHANGED <<ep, entry>>
           ELSE /\ mn' = [m EXCEPT !.pc = IF nxt = "cancelled" THEN mn.ret_to ELSE nxt]
                /\ UNCHANGED <<plan_file, ep, entry>>
    /\ UNCHANGED <<rules, command, action, steps, log>>
    /\ main_unchanged_kb /\ main_unchanged_env

\* execute_plan has returned to main, or left it by an exception
MainPlanDone ==
    /\ mn.pc = "in_plan"
    /\ ep.pc \in {"returned", "raised"}
    /\ mn' = [mn EXCEPT !.pc = IF ep.pc = "raised" THEN "crashed" ELSE mn.ret_to]
    /\ ep' = [ep EXCEPT !.pc = "idle"]
    /\ UNCHANGED <<rules, command, action, steps, entry, plan_file, log>>
    /\ main_unchanged_kb /\ main_unchanged_env

\* messages = [system prompt]; the loop is entered
MainLoopStart ==
    /\ mn.pc = "loop_start"
    /\ mn' = [mn EXCEPT !.pc = "loop", !.messages = <<"system">>]
    /\ UNCHANGED <<rules, command, action, log>>
    /\ main_unchanged_plan /\ main_unchanged_kb /\ main_unchanged_env

\* What the loop does with a line typed at "You: "
InputNext(line) ==
    LET low == lower(strip(line))
    IN  IF line = "<EOF>" \/ low \in {"exit", "quit"} THEN "exit"
        ELSE IF low \in {"new", "reset"} THEN "reset"
        ELSE IF StartsWith(low, "plan ") THEN "generate"
        ELSE "ask_model"

\* user_input = input("You: ") and the tests on it
MainInput ==
    /\ mn.pc = "loop"
    /\ \E line \in UserInputs :
         LET nxt == InputNext(line)
         IN  /\ nxt \in {"generate", "ask_model"} => mn.runs < MaxRuns
             /\ mn' = LET m == [mn EXCEPT !.reply = NoReply, !.shown = <<>>]
                      IN  IF nxt = "reset" THEN [m EXCEPT !.messages = <<"system">>]
                          ELSE IF nxt = "generate"
                          THEN [m EXCEPT !.pc = "generate", !.ret_to = "loop", !.runs = @ + 1]
                          ELSE IF nxt = "ask_model"
                          THEN [m EXCEPT !.pc = "ask_model", !.runs = @ + 1,
                                         !.messages = Append(@, "user")]
                          ELSE [m EXCEPT !.pc = "exit"]
    /\ UNCHANGED <<rules, command, action, log>>
    /\ main_unchanged_plan /\ main_unchanged_kb /\ main_unchanged_env

\* client.chat.completions.create(...): an error ends the loop; a reply that
\* CortanaResponse does not validate is printed as it is, appended to the
\* messages, and the loop goes on; else the explanation is printed,
\* command = data.command and, if non-empty,
\* action = check_command_rules(command, rules)
MainReply ==
    /\ mn.pc = "ask_model"
    /\ \/ /\ mn' = [mn EXCEPT !.pc = "exit"]
          /\ UNCHANGED <<command, action>>
       \/ \E reply \in Replies :
            LET data == model_validate_json(reply)
            IN  IF ~data.ok
                THEN /\ mn' = [mn EXCEPT
                               !.pc = "loop", !.reply = reply,
                               !.shown = <<"Invalid JSON response from AI. Please try rephrasing your request.",
                                           "AI: " \o strip(reply.raw)>>,
                               !.messages = Append(@, "assistant")]
                     /\ UNCHANGED <<command, action>>
                ELSE /\ command' = data.command
                     /\ action' = IF command' = "" THEN "unset"
                                  ELSE check_command_rules(command', rules)
                     /\ mn' = [mn EXCEPT
                               !.pc = IF command' = "" THEN "loop"
                                      ELSE IF action' = "ValueError" THEN "crashed"
                                      ELSE "gate",
                               !.warned = FALSE, !.reply = reply,
                               !.shown = <<"AI: " \o data.explanation>>,
                               !.messages = Append(@, "assistant")]
    /\ UNCHANGED <<rules, log>>
    /\ main_unchanged_plan /\ main_unchanged_kb /\ main_unchanged_env

\* Variant: a blocked command is only announced, the loop does not continue
GateNext_block_falls_through(act) ==
    IF act = "danger" THEN "danger_ask"
    ELSE IF act = "confirm" THEN "confirm_ask"
    ELSE IF act = "auto" THEN "run"
    ELSE "approve_ask"

\* if action == "block": continue; if action == "danger": ...; if action ==
\* "confirm": ...; if action == "auto": approve = "" else: approve = input(...)
GateNext(act) ==
    IF act = "block" THEN "loop"
    ELSE IF act = "danger" THEN "danger_ask"
    ELSE IF act = "confirm" THEN "confirm_ask"
    ELSE IF act = "auto" THEN "run"
    ELSE "approve_ask"

MainGate ==
    /\ mn.pc = "gate"
    /\ mn' = [mn EXCEPT !.pc = GateNext(action)]
    /\ UNCHANGED <<rules, command, action, log>>
    /\ main_unchanged_plan /\ main_unchanged_kb /\ main_unchanged_env

\* extra = input("WARNING: Dangerous command detected. Type 'yes' to run anyway: ")
\* or input("This command requires extra confirmation. Type 'yes' to proceed: ")
MainExtraAsk ==
    /\ mn.pc \in {"danger_ask", "confirm_ask"}
    /\ \E extra \in Answers :
         mn' = IF lower(strip(extra)) # "yes" THEN [mn EXCEPT !.pc = "loop"]
               ELSE [mn EXCEPT !.pc = "approve_ask", !.warned = (mn.pc = "danger_ask")]
    /\ UNCHANGED <<rules, command, action, log>>
    /\ main_unchanged_plan /\ main_unchanged_kb /\ main_unchanged_env

\* approve = input("Execute? (press enter for yes, 'n' for no): ")
MainApproveAsk ==
    /\ mn.pc = "approve_ask"
    /\ \E approve \in Answers :
         mn' = [mn EXCEPT !.pc = IF lower(strip(approve)) # "n" THEN "run" ELSE "loop"]
    /\ UNCHANGED <<rules, command, action, log>>
    /\ main_unchanged_plan /\ main_unchanged_kb /\ main_unchanged_env

\* run_command(command) is entered
MainRun ==
    /\ mn.pc = "run"
    /\ log' = Append(log, LogEntry("run", 0, command, mn.warned))
    /\ mn' = [mn EXCEPT !.pc = "running"]
    /\ UNCHANGED <<rules, command, action>>
    /\ main_unchanged_plan /\ main_unchanged_kb /\ main_unchanged_env

\* output, success = run_command(command)
MainRunEnd ==
    /\ mn.pc = "running"
    /\ \E proc \in Processes(command, CURRENT_DIR, fs) :
         LET r == run_command(command, CURRENT_DIR, fs, proc)
         IN  /\ mn' = IF r.raised THEN [mn EXCEPT !.pc = "crashed"]
                      ELSE [mn EXCEPT !.pc = "update", !.output = r.output,
                                      !.success = r.success]
             /\ log' = Append(log, LogEntry(IF r.raised THEN "raise" ELSE "ret", 0,
                                            command, mn.warned))
             /\ CURRENT_DIR' = r.cwd
             /\ fs' = r.fs
    /\ UNCHANGED <<rules, command, action, files, call>>
    /\ main_unchanged_plan /\ main_unchanged_kb

\* update_knowledge(knowledge_file, knowledge, command, output, success);
\* messages.append({"role": "user", "content": "Executed command: ..."})
MainUpdate ==
    /\ mn.pc = "update"
    /\ knowledge' = update_knowledge(knowledge, command, mn.output, mn.success,
                                     CURRENT_DIR, fs)
    /\ knowledge_file' = dump_knowledge(knowledge')
    /\ log' = Append(log, LogEntry("update", 0, command, mn.warned))
    /\ mn' = [mn EXCEPT !.pc = "loop", !.messages = Append(@, "user")]
    /\ UNCHANGED <<rules, command, action>>
    /\ main_unchanged_plan /\ main_unchanged_env

Main ==
    \/ MainStart \/ MainResumeAsk \/ MainGenerate \/ MainReviewAsk \/ MainReviewAct
    \/ MainPlanDone
    \/ MainLoopStart \/ MainInput \/ MainReply \/ MainGate \/ MainExtraAsk
    \/ MainApproveAsk \/ MainRun \/ MainRunEnd \/ MainUpdate

MainInit ==
    /\ files \in MainRuleFiles
    /\ rules = [blocked |-> <<>>, confirm |-> <<>>, auto |-> <<>>]
    /\ command = ""
    /\ action = "unset"
    /\ steps = <<>>
    /\ plan_file \in MainPlanFiles
    /\ knowledge = FreshKnowledge
    /\ knowledge_file \in {MissingFile, dump_knowledge(FreshKnowledge)}
    /\ ep = EpIdle
    /\ mn \in {[MnIdle EXCEPT !.pc = "start", !.args_plan = a, !.api_key = k] :
                 a \in BOOLEAN, k \in BOOLEAN}
    /\ entry = Snapshot
    /\ CURRENT_DIR = StartDir /\ fs = InitFs
    /\ log = <<>>
    /\ call = NoCall

MainNext == Main \/ ExecutePlan

SpecMain == MainInit /\ [][MainNext]_vars

-----------------------------------------------------------------------------
(* Specification of a session: the knowledge file is loaded, then commands    *)
(* are run by either runner, their results recorded in the knowledge base,    *)
(* commands classified and the plan saved and loaded, in any order            *)

\* The system info a knowledge file of an earlier session holds
OldSystemInfo == [os |-> "Linux 5.4"]

\* A knowledge base an earlier session left: one command run, one path found
OldKnowledge ==
    [system |-> OldSystemInfo,
     commands |-> <<[command |-> "cat a.txt", output |-> "hi\n", success |-> TRUE]>>,
     stats |-> ("cat a.txt" :> [success |-> 1, failure |-> 0]),
     paths |-> ("/srv/app/a.txt" :> "file")]

\* The knowledge file a session may find: none, one that is not JSON, one that
\* holds a JSON array, objects that lack some of the keys, a complete one
KnowledgeFiles ==
    {MissingFile,
     [state |-> "text", data |-> <<>>],
     [state |-> "json_array", data |-> <<>>],
     [state |-> "json", data |-> [commands |-> dump_knowledge(OldKnowledge).data.commands]],
     [state |-> "json", data |-> [system |-> OldSystemInfo, paths |-> OldKnowledge.paths]],
     dump_knowledge(OldKnowledge)}

\* The commands of a session: the built-ins with good and bad arguments,
\* external commands, and one that cannot be tokenized
SessionCommands ==
    {"cd sub", "cd ..", "cd nosuch/..", " cd /srv/app/sub/ ",
     "edit n.txt a  'b  c'", "edit d/e/n.txt x", "edit a.txt new", "edit n.txt", "edit sub hi",
     "cat a.txt", "rm a.txt nosuch", "printf 'a\\r\\nb\\n'", "./a.txt -l sub nosuch",
     UnquotedCommand}

\* The commands a session classifies
ClassifiedCommands == {"", "cd sub", "rm -rf /", UnquotedCommand}

\* The plan of a session
SessionPlan == <<RecordStep(PlanStep("one", "ok"), "hi\n", TRUE), PlanStep("two", "ok")>>

\* The record of the operation op that starts in the current state
Before(op) ==
    [NoCall EXCEPT !.op = op,
                   !.n = IF call.op = "init" THEN 0 ELSE call.n + 1,
                   !.cwd0 = CURRENT_DIR, !.fs0 = fs, !.kb0 = knowledge,
                   !.kf0 = knowledge_file, !.steps0 = steps, !.pf0 = plan_file,
                   !.prev = [op |-> call.op, command |-> call.command,
                             cwd0 |-> call.cwd0, success |-> call.success]]

\* The session goes on after start-up as long as no exception has ended it
SessionOpen == call.op # "init" /\ ~call.raised /\ call.n < MaxOps

session_unchanged_other == UNCHANGED <<files, rules, entry, ep, mn, log>>

\* knowledge = load_knowledge(knowledge_file): at start-up, and again later
SessionLoad ==
    /\ call.op = "init" \/ SessionOpen
    /\ LET r == load_knowledge(knowledge_file, SystemInfo)
       IN  /\ knowledge' = IF r.raised THEN knowledge ELSE r.data
           /\ knowledge_file' = IF r.raised THEN knowledge_file
                                ELSE dump_knowledge(knowledge')
           /\ call' = [Before("load") EXCEPT !.raised = r.raised,
                                             !.gathered = r.gathered]
    /\ UNCHANGED <<command, action, steps, plan_file, CURRENT_DIR, fs>>
    /\ session_unchanged_other

\* output, success = run_command(command); twin is what run_command_async
\* makes of the same command, started in the same state, with a child that
\* behaves in the same way
SessionRun ==
    /\ SessionOpen
    /\ \E cmd \in SessionCommands :
         \E proc \in Processes(cmd, CURRENT_DIR, fs) :
           LET r == run_command(cmd, CURRENT_DIR, fs, proc)
           IN  /\ command' = cmd
               /\ CURRENT_DIR' = r.cwd
               /\ fs' = r.fs
               /\ call' = [Before("run") EXCEPT
                             !.command = cmd, !.raised = r.raised,
                             !.output = r.output, !.success = r.success,
                             !.exec_dir = r.exec_dir,
                             !.twin = run_command_async(cmd, CURRENT_DIR, fs, proc)]
    /\ UNCHANGED <<action, steps, plan_file, knowledge, knowledge_file>>
    /\ session_unchanged_other

\* Variant: the update changes the knowledge base in memory and writes nothing
SessionUpdate_unsaved ==
    /\ SessionOpen
    /\ call.op = "run"
    /\ knowledge' = update_knowledge(knowledge, call.command, call.output, call.success,
                                     CURRENT_DIR, fs)
    /\ call' = [Before("update") EXCEPT !.command = call.command, !.output = call.output,
                                        !.success = call.success]
    /\ UNCHANGED <<command, action, steps, plan_file, CURRENT_DIR, fs, knowledge_file>>
    /\ session_unchanged_other

\* update_knowledge(knowledge_file, knowledge, command, output, success), with
\* what the runner has just returned
SessionUpdate ==
    /\ SessionOpen
    /\ call.op = "run"
    /\ knowledge' = update_knowledge(knowledge, call.command, call.output, call.success,
                                     CURRENT_DIR, fs)
    /\ knowledge_file' = dump_knowledge(knowledge')
    /\ call' = [Before("update") EXCEPT !.command = call.command, !.output = call.output,
                                        !.success = call.success]
    /\ UNCHANGED <<command, action, steps, plan_file, CURRENT_DIR, fs>>
    /\ session_unchanged_other

\* action = check_command_rules(command, rules)
SessionClassify ==
    /\ SessionOpen
    /\ \E cmd \in ClassifiedCommands :
         /\ command' = cmd
         /\ action' = check_command_rules(cmd, rules)
         /\ call' = [Before("classify") EXCEPT !.command = cmd,
                                               !.raised = (action' = "ValueError")]
    /\ UNCHANGED <<steps, plan_file, knowledge, knowledge_file, CURRENT_DIR, fs>>
    /\ session_unchanged_other

\* save_plan(plan_file, steps)
SavePlan ==
    /\ SessionOpen
    /\ plan_file' = save_plan(steps)
    /\ call' = Before("save_plan")
    /\ UNCHANGED <<command, action, steps, knowledge, knowledge_file, CURRENT_DIR, fs>>
    /\ session_unchanged_other

\* steps = load_plan(plan_file)
LoadPlan ==
    /\ SessionOpen
    /\ steps' = IF load_plan(plan_file).raised THEN steps ELSE load_plan(plan_file).steps
    /\ call' = [Before("load_plan") EXCEPT !.raised = load_plan(plan_file).raised]
    /\ UNCHANGED <<command, action, plan_file, knowledge, knowledge_file, CURRENT_DIR, fs>>
    /\ session_unchanged_other

SessionInit ==
    /\ files = NoRuleFiles
    /\ rules = load_rules(files)
    /\ command = ""
    /\ action = "unset"
    /\ steps = SessionPlan
    /\ plan_file = MissingFile
    /\ knowledge = FreshKnowledge
    /\ knowledge_file \in KnowledgeFiles
    /\ ep = EpIdle /\ mn = MnIdle
    /\ entry = Snapshot
    /\ CURRENT_DIR = StartDir /\ fs = InitFs
    /\ log = <<>>
    /\ call = NoCall

SessionNext ==
    SessionLoad \/ SessionRun \/ SessionUpdate \/ SessionClassify \/ SavePlan \/ LoadPlan

SpecSession == SessionInit /\ [][SessionNext]_vars

-----------------------------------------------------------------------------
(* Specification of the plan file: plans are saved and loaded *)

\* The plan file that may be found: none, one that is not JSON, a JSON number,
\* arrays with an entry PlanStep does not take (an unknown key, no command),
\* an array whose entry leaves the defaults out, a saved plan
PlanFiles ==
    {MissingFile,
     [state |-> "text", data |-> <<>>],
     [state |-> "json_scalar", data |-> <<>>],
     [state |-> "json", data |-> <<asdict(PlanStep("one", "ok")),
                                   [description |-> "two", command |-> "ok", note |-> "x"]>>],
     [state |-> "json", data |-> <<[description |-> "one"]>>],
     [state |-> "json", data |-> <<[description |-> "one", command |-> "ok"]>>],
     save_plan(<<RecordStep(PlanStep("one", "ok"), "", FALSE)>>)}

PlanFileInit ==
    /\ files = NoRuleFiles
    /\ rules = load_rules(files)
    /\ command = ""
    /\ action = "unset"
    /\ steps \in InitialPlans
    /\ plan_file \in PlanFiles
    /\ knowledge = FreshKnowledge /\ knowledge_file = dump_knowledge(FreshKnowledge)
    /\ ep = EpIdle /\ mn = MnIdle
    /\ entry = Snapshot
    /\ CURRENT_DIR = StartDir /\ fs = InitFs
    /\ log = <<>>
    /\ call = [NoCall EXCEPT !.op = "start"]

PlanFileNext == SavePlan \/ LoadPlan

SpecPlanFile == PlanFileInit /\ [][PlanFileNext]_vars

-----------------------------------------------------------------------------
(* Specification of plan execution across restarts: the process may stop at   *)
(* any statement of execute_plan; started again, it loads the knowledge base  *)
(* and the plan from their files and resumes the plan                         *)

\* The knowledge base an earlier execution of the plan has left: one update for
\* each step that is no longer pending
RECURSIVE KnowledgeOf(_, _, _)
KnowledgeOf(ss, i, kb) ==
    IF i > Len(ss) THEN kb
    ELSE KnowledgeOf(ss, i + 1,
                     IF ss[i].status = "pending" THEN kb
                     ELSE update_knowledge(kb, ss[i].command, ss[i].output,
                                           ss[i].success[1], StartDir, InitFs))

RestartInit ==
    /\ files = NoRuleFiles
    /\ rules = load_rules(files)
    /\ command = ""
    /\ action = "unset"
    /\ steps \in InitialPlans
    /\ plan_file = save_plan(steps)
    /\ knowledge = KnowledgeOf(steps, 1, FreshKnowledge)
    /\ knowledge_file = dump_knowledge(knowledge)
    /\ ep = EpIdle /\ mn = MnIdle
    /\ entry = Snapshot
    /\ CURRENT_DIR = StartDir /\ fs = InitFs
    /\ log = <<>>
    /\ call = NoCall

\* The process stops while execute_plan is at work or after it, and main starts
\* again: knowledge = load_knowledge(knowledge_file), steps =
\* load_task_plan(plan_file); what was in memory only is lost.  A restart is
\* taken only while another call of execute_plan may follow it.
Restart ==
    /\ ep.pc # "idle"
    /\ ep.n < MaxInvokes
    /\ steps' = load_plan(plan_file).steps
    /\ knowledge' = load_knowledge(knowledge_file, SystemInfo).data
    /\ knowledge_file' = dump_knowledge(knowledge')
    /\ ep' = [EpIdle EXCEPT !.n = ep.n]
    /\ CURRENT_DIR' = StartDir
    /\ UNCHANGED <<files, rules, command, action, mn, fs, entry, plan_file, log, call>>

RestartNext == PlanInvoke \/ ExecutePlan \/ Restart

SpecRestart == RestartInit /\ [][RestartNext]_vars

-----------------------------------------------------------------------------
(* Properties of the classifier, checked under SpecRules *)

Classified == action # "unset"

\* Some pattern of the list is a substring of the command (the empty pattern included)
SomePatternIn(pats, cmd) == \E i \in DOMAIN pats : StrIn(pats[i], cmd)

\* Some non-empty pattern of the list is a substring of the command
SomeNonEmptyPatternIn(pats, cmd) ==
    \E i \in DOMAIN pats : Len(pats[i]) > 0 /\ StrIn(pats[i], cmd)

ContainsDangerous(cmd) ==
    StrIn("rm -rf /", cmd) \/ StrIn("rm -rf /*", cmd) \/ StrIn("mkfs", cmd) \/ StrIn("dd if=", cmd)

\* The command tokenizes and its first token is an entry of the auto list
FirstTokenInAuto(cmd, rl) ==
    LET sp == shlex_split(cmd)
    IN  sp.ok /\ Len(sp.parts) > 0 /\ \E i \in DOMAIN rl.auto : rl.auto[i] = sp.parts[1]

\* C2 as stated: whenever any pattern of the blocked list is a substring of the
\* command, the verdict is block.  (Stated for the commands that can be
\* tokenized, so that a violation does not rest on shlex.split raising.)
C2_BlockDominatesAnyPattern ==
    (Classified /\ shlex_split(command).ok /\ SomePatternIn(rules.blocked, command))
        => action = "block"

\* C2, amended: whenever a non-empty pattern of the blocked list is a substring of
\* the command, the verdict is block, whatever else the command matches.
C2_BlockDominates ==
    (Classified /\ SomeNonEmptyPatternIn(rules.blocked, command)) => action = "block"

\* C2 witness: a blocked command that also matches a dangerous pattern, a confirm
\* pattern and the auto list
C2_Witness ==
    /\ Classified /\ action = "block"
    /\ SomeNonEmptyPatternIn(rules.blocked, command)
    /\ ContainsDangerous(command)
    /\ SomeNonEmptyPatternIn(rules.confirm, command)
    /\ FirstTokenInAuto(command, rules)

\* C3: a command that contains a built-in dangerous pattern and no blocked pattern
\* is classified danger, even if it matches a confirm pattern or the auto list.
C3_DangerWithoutBlock ==
    (Classified /\ ContainsDangerous(command) /\ ~SomePatternIn(rules.blocked, command))
        => action = "danger"

\* C3 witness: a dangerous command, not blocked, that matches a confirm pattern and
\* whose first token is auto-approved
C3_Witness ==
    /\ Classified /\ action = "danger"
    /\ ContainsDangerous(command)
    /\ ~SomePatternIn(rules.blocked, command)
    /\ SomeNonEmptyPatternIn(rules.confirm, command)
    /\ FirstTokenInAuto(command, rules)

\* C4 as stated: a command that contains a confirm pattern and no blocked or
\* dangerous pattern is classified confirm, and auto is reached only if no
\* blocked, dangerous or confirm pattern matches.  (The first part is stated for
\* the commands that can be tokenized.)
C4_ConfirmOutranksAutoAnyPattern ==
    /\ (Classified /\ shlex_split(command).ok /\ SomePatternIn(rules.confirm, command)
          /\ ~SomePatternIn(rules.blocked, command) /\ ~ContainsDangerous(command))
        => action = "confirm"
    /\ (Classified /\ action = "auto")
        => (~SomePatternIn(rules.blocked, command) /\ ~ContainsDangerous(command)
            /\ ~SomePatternIn(rules.confirm, command))

\* C4, amended: a command that contains a non-empty confirm pattern and no
\* non-empty blocked pattern and no dangerous pattern is classified confirm, and
\* auto is reached only if no non-empty blocked pattern, no dangerous pattern and
\* no non-empty confirm pattern matches.
C4_ConfirmOutranksAuto ==
    /\ (Classified /\ SomeNonEmptyPatternIn(rules.confirm, command)
          /\ ~SomeNonEmptyPatternIn(rules.blocked, command) /\ ~ContainsDangerous(command))
        => action = "confirm"
    /\ (Classified /\ action = "auto")
        => (~SomeNonEmptyPatternIn(rules.blocked, command) /\ ~ContainsDangerous(command)
            /\ ~SomeNonEmptyPatternIn(rules.confirm, command))

\* C4 witness: a command classified confirm whose first token is auto-approved
C4_Witness ==
    /\ Classified /\ action = "confirm"
    /\ SomeNonEmptyPatternIn(rules.confirm, command)
    /\ FirstTokenInAuto(command, rules)

\* C5: a command that matches no blocked, dangerous or confirm pattern is
\* classified auto exactly when its first shell token is an auto entry, and gets
\* no verdict (None) otherwise.
C5_AutoIffFirstToken ==
    (Classified /\ ~SomePatternIn(rules.blocked, command) /\ ~ContainsDangerous(command)
       /\ ~SomePatternIn(rules.confirm, command))
        => /\ action \in {"auto", "None"}
           /\ action = "auto" <=> FirstTokenInAuto(command, rules)

-----------------------------------------------------------------------------
(* Properties of the plan executor, checked under SpecPlan *)

\* Positions of the log written during the current call of execute_plan
CallLog == (ep.base + 1)..Len(log)

\* Step j had the runner invoked on it / its runner returned, in the current call
RanInCall(j) == \E k \in CallLog : log[k].op = "run" /\ log[k].idx = j
ReturnedInCall(j) == \E k \in CallLog : log[k].op = "ret" /\ log[k].idx = j

PendingAtEntry(j) == entry.steps[j].status = "pending"

\* C6: in one run pending steps are run in sequence order; once a step run in
\* this call is Failed, every step run before it in this call is Done, no step
\* after it is run and the steps after it are as they were at the call.
C6_FailureStopsPlan ==
    /\ Len(steps) = Len(entry.steps)
    /\ \A k1, k2 \in CallLog :
         (k1 < k2 /\ log[k1].op = "run" /\ log[k2].op = "run") => log[k1].idx < log[k2].idx
    /\ \A j \in DOMAIN steps :
         RanInCall(j) => \A h \in 1..(j - 1) : PendingAtEntry(h) => RanInCall(h)
    /\ \A f \in DOMAIN steps :
         (RanInCall(f) /\ steps[f].status = "failed")
            => /\ \A j \in 1..(f - 1) : RanInCall(j) => steps[j].status = "done"
               /\ \A j \in (f + 1)..Len(steps) :
                    /\ ~RanInCall(j)
                    /\ steps[j] = entry.steps[j]

\* C6 witness: three pending steps, the first done, the second failed, the third
\* left pending, after execute_plan has returned
C6_Witness ==
    /\ ep.pc = "returned" /\ Len(steps) = 3
    /\ \A j \in 1..3 : PendingAtEntry(j)
    /\ RanInCall(1) /\ RanInCall(2) /\ ~RanInCall(3)
    /\ steps[1].status = "done" /\ steps[2].status = "failed"
    /\ steps[3].status = "pending" /\ steps[3].output = "" /\ steps[3].success = None

\* C7: once the operator has declined a step (confirm_each_step true), the runner
\* is invoked for neither that step nor a later one, these steps are as they
\* were (the declined one pending), the knowledge base gets no record for them,
\* and execute_plan only saves the plan and returns.
C7_DeclinePauses ==
    ep.declined > 0 =>
        /\ ep.confirm_each_step
        /\ ep.pc \in {"pause", "returned"}
        /\ \A k \in CallLog : log[k].op \in {"run", "ret", "update"} => log[k].idx < ep.declined
        /\ \A j \in ep.declined..Len(steps) : steps[j] = entry.steps[j]
        /\ steps[ep.declined].status = "pending"
        /\ Len(knowledge.commands) =
              Len(entry.knowledge.commands)
              + Cardinality({j \in 1..(ep.declined - 1) : ReturnedInCall(j)})
        /\ ep.pc = "returned" => (plan_file.state = "json" /\ load_plan(plan_file).steps = steps)

\* C7 witness: the first of several steps was declined, nothing was run, and the
\* plan file, missing before, now holds the plan
C7_Witness ==
    /\ ep.pc = "returned" /\ ep.declined = 1 /\ Len(steps) >= 2
    /\ entry.plan_file.state = "missing" /\ plan_file.state = "json"
    /\ knowledge.commands = <<>>
    /\ \A j \in DOMAIN steps : steps[j].status = "pending"

\* C8: a step that is Done or Failed when execute_plan is called is never run or
\* recorded in the knowledge base and keeps its fields; a call on a plan with
\* no Pending step changes nothing.
C8_OnlyPendingSteps ==
    /\ Len(steps) = Len(entry.steps)
    /\ \A j \in DOMAIN steps :
         ~PendingAtEntry(j)
            => /\ steps[j] = entry.steps[j]
               /\ \A k \in CallLog : log[k].idx # j
    /\ (\A j \in DOMAIN entry.steps : ~PendingAtEntry(j))
            => /\ steps = entry.steps
               /\ knowledge = entry.knowledge
               /\ knowledge_file = entry.knowledge_file
               /\ plan_file = entry.plan_file
               /\ Len(log) = ep.base

\* C8 witness: a plan resumed with a Failed step before a Pending one; the
\* Pending one was run, the Failed one skipped
C8_Witness ==
    /\ ep.pc = "returned" /\ Len(steps) >= 2
    /\ entry.steps[1].status = "failed" /\ steps[1] = entry.steps[1]
    /\ PendingAtEntry(2) /\ RanInCall(2) /\ steps[2].status = "done"

\* The number of log entries with one of the given operations
CountOps(ops) == Cardinality({k \in DOMAIN log : log[k].op \in ops})

\* The position of the last return of the runner in the log, 0 if there is none
LastReturn ==
    LET rets == {k \in DOMAIN log : log[k].op = "ret"}
    IN  IF rets = {} THEN 0 ELSE CHOOSE k \in rets : \A h \in rets : h <= k

\* C9: at most one step's command is executing at any time, and when the runner
\* is invoked for a step, the knowledge-base update of every step run before it
\* has completed: the knowledge base holds the preceding step's record.
C9_SequentialSteps ==
    /\ CountOps({"run"}) - CountOps({"ret", "raise"}) = (IF ep.pc = "running" THEN 1 ELSE 0)
    /\ \A k \in DOMAIN log :
         log[k].op = "run"
            => \A k1 \in 1..(k - 1) :
                 log[k1].op = "ret"
                    => \E k2 \in (k1 + 1)..(k - 1) :
                         log[k2].op = "update" /\ log[k2].idx = log[k1].idx
    /\ (ep.pc \in {"run", "running"} /\ LastReturn > 0)
            => /\ Len(knowledge.commands) = CountOps({"ret"})
               /\ LET prev == log[LastReturn].idx
                  IN  knowledge.commands[Len(knowledge.commands)] =
                         [command |-> steps[prev].command, output |-> steps[prev].output,
                          success |-> steps[prev].success[1]]
               /\ knowledge_file.data.commands =
                     [i \in DOMAIN knowledge.commands |->
                        [command |-> knowledge.commands[i].command,
                         output |-> knowledge.commands[i].output,
                         success |-> IF knowledge.commands[i].success THEN "true" ELSE "false"]]

\* C9 witness: the second step's command is executing and the knowledge base
\* holds the first step's record
C9_Witness ==
    /\ ep.pc = "running" /\ ep.i = 2 /\ RanInCall(1)
    /\ Len(knowledge.commands) = 1
    /\ knowledge.commands[1].command = steps[1].command

\* C10: once a step has been run in this call, the plan file holds the plan as it
\* is in memory whenever a later step's command is about to run or is running,
\* and whenever execute_plan has returned after running or declining a step.
C10_PlanPersisted ==
    /\ (ep.pc \in {"run", "running"} /\ \E k \in CallLog : log[k].op = "ret")
            => (plan_file.state = "json" /\ load_plan(plan_file).steps = steps)
    /\ (ep.pc = "returned" /\ (ep.declined > 0 \/ \E k \in CallLog : log[k].op = "ret"))
            => (plan_file.state = "json" /\ load_plan(plan_file).steps = steps)

\* C10 witness: execute_plan has returned after running two steps of a plan whose
\* file did not exist, and the file holds the returned steps
C10_Witness ==
    /\ ep.pc = "returned" /\ entry.plan_file.state = "missing"
    /\ RanInCall(1) /\ RanInCall(2)
    /\ plan_file.state = "json" /\ load_plan(plan_file).steps = steps
    /\ steps # entry.steps

-----------------------------------------------------------------------------
(* Properties of main, checked under SpecMain *)

\* The runner invocation at log position k is safe: the command holds no
\* (non-empty) blocked pattern, and if it holds a dangerous pattern the operator
\* was shown the warning and typed yes
SafeRun(k) ==
    /\ ~SomeNonEmptyPatternIn(rules.blocked, log[k].command)
    /\ ContainsDangerous(log[k].command) => log[k].warned

\* C1: on every path by which main executes a command, the interactive loop and
\* execute_plan, a command with a blocked pattern is never passed to the runner
\* and one with a dangerous pattern only after the warning was answered yes.
C1_NoUngatedRun ==
    \A k \in DOMAIN log : log[k].op = "run" => SafeRun(k)

\* The same for the interactive loop alone (log entries of the loop have idx 0):
\* this part holds
LoopRunsAreGated ==
    \A k \in DOMAIN log : (log[k].op = "run" /\ log[k].idx = 0) => SafeRun(k)

\* A dangerous command run from the loop after the warning was answered yes
LoopDangerousRunReached ==
    \E k \in DOMAIN log :
        log[k].op = "run" /\ log[k].idx = 0 /\ ContainsDangerous(log[k].command)

-----------------------------------------------------------------------------
(* Properties of plan persistence, checked under SpecPlanFile *)

\* The last two operations were save_plan and then load_plan
SavedThenLoaded == call.op = "load_plan" /\ call.prev.op = "save_plan"

\* C11: save_plan(path, steps) followed by load_plan(path) yields a sequence of
\* the same length and order whose steps equal the originals in description,
\* command, status, output and success.  (call.steps0 holds the steps that
\* were saved: save_plan leaves them as they are.)
C11_SaveLoadRoundTrip ==
    SavedThenLoaded =>
        /\ ~call.raised
        /\ Len(steps) = Len(call.steps0)
        /\ \A i \in DOMAIN call.steps0 :
             /\ steps[i].description = call.steps0[i].description
             /\ steps[i].command = call.steps0[i].command
             /\ steps[i].status = call.steps0[i].status
             /\ steps[i].output = call.steps0[i].output
             /\ steps[i].success = call.steps0[i].success

\* A plan of three steps went through the file: a step that never ran (success
\* None), a failed one and a done one
C11_Witness ==
    /\ SavedThenLoaded
    /\ Len(steps) = 3
    /\ steps[1].success = Some(TRUE) /\ steps[2].success = Some(FALSE)
    /\ steps[3].success = None /\ steps[3].status = "pending"

\* The entry d of a plan file is a valid step: an object with a description and
\* a command, and no key that is not a field of a step
ValidEntry(d) ==
    /\ "description" \in DOMAIN d /\ "command" \in DOMAIN d
    /\ \A k \in DOMAIN d : k \in {"description", "command", "status", "output", "success"}

\* The plan file is missing, or its content is not a JSON array of valid steps
MissingOrMalformed(file) ==
    \/ file.state \in {"missing", "text", "json_scalar"}
    \/ file.state = "json" /\ \E i \in DOMAIN file.data : ~ValidEntry(file.data[i])

\* C12: load_plan on a plan file that is missing or malformed (not parseable,
\* or with an entry that is not a valid step) raises nothing, returns the
\* empty sequence and leaves the file as it was.
C12_LoadPlanNeverFails ==
    (call.op = "load_plan" /\ MissingOrMalformed(call.pf0)) =>
        /\ ~call.raised
        /\ steps = <<>>
        /\ plan_file = call.pf0

\* A plan in memory was replaced by the empty sequence on loading a file
\* whose first entry is valid and whose second is not
C12_Witness ==
    /\ call.op = "load_plan"
    /\ call.pf0.state = "json" /\ Len(call.pf0.data) = 2
    /\ ValidEntry(call.pf0.data[1]) /\ ~ValidEntry(call.pf0.data[2])
    /\ call.steps0 # <<>>
    /\ steps = <<>>

-----------------------------------------------------------------------------
(* Properties of the runner and the knowledge base, checked under SpecSession *)

\* The tokens of a command, none when it cannot be tokenized
TokensOf(cmd) == IF shlex_split(strip(cmd)).ok THEN shlex_split(strip(cmd)).parts ELSE <<>>

\* The first token of the command is verb
HasVerb(cmd, verb) == TokensOf(cmd) # <<>> /\ TokensOf(cmd)[1] = verb

\* The path tok names, relative paths taken from the directory dir
ResolvedFrom(dir, tok) ==
    IF StartsWith(tok, "/") THEN tok
    ELSE IF dir = "/" THEN dir \o tok
    ELSE (dir \o "/") \o tok

\* The last operation ran `cd <path>`
RanCdPath == call.op = "run" /\ HasVerb(call.command, "cd") /\ Len(TokensOf(call.command)) > 1

\* The operation before the last one was a `cd <path>` that succeeded
AfterCd ==
    /\ call.prev.op = "run" /\ call.prev.success
    /\ HasVerb(call.prev.command, "cd") /\ Len(TokensOf(call.prev.command)) > 1

\* C13: `cd <path>` to an existing directory (a relative path resolved against
\* the session directory) returns success with empty output and sets the
\* session directory to that path, and an external command run next is started
\* there; `cd` to a path that is not an existing directory returns failure and
\* leaves the session directory as it was.
C13_CdSetsSessionDir ==
    /\ RanCdPath =>
         LET target == ResolvedFrom(call.cwd0, TokensOf(call.command)[2])
         IN  IF path_isdir(call.fs0, target)
             THEN /\ ~call.raised /\ call.success /\ call.output = ""
                  /\ CURRENT_DIR = normpath(target)
             ELSE /\ ~call.raised /\ ~call.success
                  /\ CURRENT_DIR = call.cwd0
    /\ (call.op = "run" /\ call.exec_dir # "" /\ AfterCd) =>
         call.exec_dir = normpath(ResolvedFrom(call.prev.cwd0, TokensOf(call.prev.command)[2]))

\* An external command was run right after a cd that moved the session to
\* another directory
C13_Witness ==
    /\ call.op = "run" /\ call.exec_dir # "" /\ AfterCd
    /\ call.exec_dir = "/srv/app/sub"
    /\ call.prev.cwd0 = StartDir

\* C14: the session directory changes only when the cd built-in is run: edit,
\* an external command (whatever it does, whether it succeeds or fails),
\* classification, loading and updating the knowledge base, and saving and
\* loading the plan leave it as it was before the operation.
C14_OnlyCdMovesSession ==
    CURRENT_DIR # call.cwd0 => (call.op = "run" /\ HasVerb(call.command, "cd"))

\* An edit wrote a file below a directory it had to make, in a session that a
\* cd had moved before, and the session directory stayed
C14_Witness ==
    /\ call.op = "run" /\ HasVerb(call.command, "edit") /\ call.success
    /\ DOMAIN fs # DOMAIN call.fs0
    /\ AfterCd
    /\ CURRENT_DIR = call.cwd0 /\ CURRENT_DIR # StartDir

\* C15: `edit <path> <content...>` with at least two arguments returns success
\* and leaves at the path (resolved against the session directory, parent
\* directories made as needed) a file whose whole content is the remaining
\* tokens joined by single spaces; with fewer than two arguments it returns
\* failure and no file is made or changed.
C15_EditWritesFile ==
    (call.op = "run" /\ HasVerb(call.command, "edit")) =>
        LET parts == TokensOf(call.command)
        IN  IF Len(parts) >= 3
            THEN LET path == normpath(ResolvedFrom(call.cwd0, parts[2]))
                 IN  /\ ~call.raised /\ call.success
                     /\ path \in DOMAIN fs
                     /\ fs[path] = [kind |-> "file",
                                    content |-> JoinSpace(SubSeq(parts, 3, Len(parts)), 1)]
            ELSE /\ ~call.raised /\ ~call.success
                 /\ fs = call.fs0

\* The part of C15 that holds: when the path does not name a directory (and no
\* file stands where a parent directory is needed) the file is written
EditWritesFileUnlessDirectory ==
    (call.op = "run" /\ HasVerb(call.command, "edit") /\ ~call.raised) =>
        LET parts == TokensOf(call.command)
        IN  IF Len(parts) >= 3
            THEN /\ call.success
                 /\ fs[normpath(ResolvedFrom(call.cwd0, parts[2]))] =
                        [kind |-> "file",
                         content |-> JoinSpace(SubSeq(parts, 3, Len(parts)), 1)]
            ELSE ~call.success /\ fs = call.fs0

\* C16: run_command and run_command_async, given the same command in the same
\* session directory and filesystem, return the same output and the same success
\* value and leave the same session directory and the same files.
C16_RunnersEquivalent ==
    call.op = "run" =>
        /\ call.twin.raised = call.raised
        /\ call.twin.output = call.output
        /\ call.twin.success = call.success
        /\ call.twin.cwd = CURRENT_DIR
        /\ call.twin.fs = fs

\* The part of C16 that holds: all but the output is the same
RunnersAgreeButForOutput ==
    call.op = "run" =>
        /\ call.twin.raised = call.raised
        /\ call.twin.success = call.success
        /\ call.twin.cwd = CURRENT_DIR
        /\ call.twin.fs = fs

\* C17: load_knowledge on a missing knowledge file or one with malformed content
\* does not fail: it returns a structure with empty commands, stats and paths
\* and the system info just gathered, and the file is rewritten to hold it.
C17_LoadSurvivesMalformed ==
    (call.op = "load" /\ call.kf0.state \in {"missing", "text", "json_array"}) =>
        /\ ~call.raised
        /\ knowledge.commands = <<>> /\ DOMAIN knowledge.stats = {}
        /\ DOMAIN knowledge.paths = {}
        /\ knowledge.system = SystemInfo /\ call.gathered = 1
        /\ knowledge_file.state = "json"
        /\ parse_knowledge(knowledge_file.data) = knowledge

\* The part of C17 that holds: a missing file and one that is not JSON
LoadSurvivesUnparseable ==
    (call.op = "load" /\ call.kf0.state \in {"missing", "text"}) =>
        /\ ~call.raised
        /\ knowledge.commands = <<>> /\ DOMAIN knowledge.stats = {}
        /\ DOMAIN knowledge.paths = {}
        /\ knowledge.system = SystemInfo /\ call.gathered = 1
        /\ knowledge_file.state = "json"
        /\ parse_knowledge(knowledge_file.data) = knowledge

\* C18: load_knowledge on a well-formed knowledge file fills in the keys among
\* system, commands, stats, paths that are absent and leaves the values of the
\* keys that are present as they are; the system info is gathered once when
\* system is absent and not at all when it is present; a later load or an
\* update leaves the system info that was captured.
C18_LoadBackFills ==
    /\ (call.op = "load" /\ call.kf0.state = "json") =>
         /\ ~call.raised
         /\ \A k \in {"system", "commands", "stats", "paths"} :
              IF k \in DOMAIN call.kf0.data
              THEN knowledge_file.data[k] = call.kf0.data[k]
              ELSE IF k = "system" THEN knowledge[k] = SystemInfo
              ELSE DOMAIN knowledge[k] = {}
         /\ knowledge_file.state = "json"
         /\ parse_knowledge(knowledge_file.data) = knowledge
         /\ call.gathered = IF "system" \in DOMAIN call.kf0.data THEN 0 ELSE 1
    /\ (call.op = "update" \/ (call.op = "load" /\ call.prev.op # "init" /\ ~call.raised)) =>
         knowledge.system = call.kb0.system

\* A file with the system info of an earlier session and no commands or stats
\* was loaded: the old system info is kept, nothing was gathered, the recorded
\* path is kept
C18_Witness ==
    /\ call.op = "load" /\ call.kf0.state = "json"
    /\ DOMAIN call.kf0.data = {"system", "paths"}
    /\ knowledge.system = OldSystemInfo /\ OldSystemInfo # SystemInfo
    /\ call.gathered = 0
    /\ knowledge.commands = <<>>
    /\ "/srv/app/a.txt" \in DOMAIN knowledge.paths

\* The counters of a command in a stats mapping, zero when it has none
CountersOf(stats, cmd) ==
    IF cmd \in DOMAIN stats THEN stats[cmd] ELSE [success |-> 0, failure |-> 0]

\* C19: update_knowledge(command, output, success) appends one record
\* {command, output, success} at the end of commands and leaves the earlier
\* records as they were, and adds one to stats[command].success when success is
\* true and to stats[command].failure otherwise, leaving the other counter and
\* the stats of every other command as they were.
C19_UpdateAppendsAndCounts ==
    call.op = "update" =>
        LET before == call.kb0
            was == CountersOf(before.stats, call.command)
            now == knowledge.stats[call.command]
        IN  /\ Len(knowledge.commands) = Len(before.commands) + 1
            /\ \A i \in DOMAIN before.commands : knowledge.commands[i] = before.commands[i]
            /\ knowledge.commands[Len(knowledge.commands)] =
                 [command |-> call.command, output |-> call.output, success |-> call.success]
            /\ now.success = was.success + (IF call.success THEN 1 ELSE 0)
            /\ now.failure = was.failure + (IF call.success THEN 0 ELSE 1)
            /\ DOMAIN knowledge.stats = DOMAIN before.stats \cup {call.command}
            /\ \A c \in DOMAIN before.stats \ {call.command} :
                 knowledge.stats[c] = before.stats[c]

\* A command that had succeeded once failed and was recorded: one success,
\* one failure, two records
C19_Witness ==
    /\ call.op = "update" /\ ~call.success
    /\ call.command \in DOMAIN call.kb0.stats
    /\ knowledge.stats[call.command] = [success |-> 1, failure |-> 1]
    /\ Len(knowledge.commands) = 2

\* The candidate paths of a command: its tokens after the first that are not
\* flags, resolved against the session directory (paths holds them normalized)
CandidatePaths(cmd, dir) ==
    {ResolvedFrom(dir, TokensOf(cmd)[i]) :
        i \in {j \in 2..Len(TokensOf(cmd)) : ~StartsWith(TokensOf(cmd)[j], "-")}}

\* C20: update_knowledge with success = False removes from paths every
\* candidate path of the command that no longer exists on disk, a path an
\* earlier update recorded and this command deleted included, and leaves in
\* paths the candidate paths that still exist.
C20_FailedUpdateDropsGonePaths ==
    (call.op = "update" /\ ~call.success) =>
        \A p \in CandidatePaths(call.command, CURRENT_DIR) :
            IF path_exists(fs, p) THEN normpath(p) \in DOMAIN knowledge.paths
            ELSE normpath(p) \notin DOMAIN knowledge.paths

\* The part of C20 that holds: the candidate paths that exist are in paths
\* after an update
ExistingCandidatesAreRecorded ==
    call.op = "update" =>
        \A p \in CandidatePaths(call.command, CURRENT_DIR) :
            path_exists(fs, p) => normpath(p) \in DOMAIN knowledge.paths

\* The tokens of the command from the i-th on that are not flags and that name,
\* taken from the session directory, something that exists
ExistingTokenPaths(cmd, dir, f, first) ==
    {ResolvedFrom(dir, TokensOf(cmd)[i]) :
        i \in {j \in first..Len(TokensOf(cmd)) :
                  /\ ~StartsWith(TokensOf(cmd)[j], "-")
                  /\ path_exists(f, ResolvedFrom(dir, TokensOf(cmd)[j]))}}

\* The entry at p is in paths under its absolute path, with its kind
RecordedWithKind(p) ==
    /\ normpath(p) \in DOMAIN knowledge.paths
    /\ knowledge.paths[normpath(p)] = (IF path_isdir(fs, p) THEN "directory" ELSE "file")

PathKindsAreKnown == \A p \in DOMAIN knowledge.paths : knowledge.paths[p] \in {"file", "directory"}

\* C21, as stated: after update_knowledge every token of the command, the
\* first included, that is not a flag and resolves to an existing entry has the
\* entry's absolute path in paths with its kind, and every value in paths is
\* "file" or "directory".
C21_UpdateRecordsTokenPaths ==
    /\ call.op = "update" =>
         \A p \in ExistingTokenPaths(call.command, CURRENT_DIR, fs, 1) : RecordedWithKind(p)
    /\ PathKindsAreKnown

\* C21, amended: the same for the tokens after the first one; the first token,
\* the name of the program, is never recorded.
C21_UpdateRecordsArgumentPaths ==
    /\ call.op = "update" =>
         /\ \A p \in ExistingTokenPaths(call.command, CURRENT_DIR, fs, 2) : RecordedWithKind(p)
         /\ DOMAIN knowledge.paths =
              DOMAIN call.kb0.paths \cup
              {normpath(p) : p \in ExistingTokenPaths(call.command, CURRENT_DIR, fs, 2)}
    /\ PathKindsAreKnown

\* An update recorded a directory and skipped a flag and a missing path, with
\* no path known before
C21_Witness ==
    /\ call.op = "update" /\ call.command = "./a.txt -l sub nosuch"
    /\ call.kb0.paths = <<>>
    /\ DOMAIN knowledge.paths = {"/srv/app/sub"}
    /\ knowledge.paths["/srv/app/sub"] = "directory"

\* load_knowledge has returned: the session is past start-up
KnowledgeLoaded == call.op # "init" /\ ~(call.op = "load" /\ call.raised)

\* What a reader of the knowledge file gets is the knowledge base in memory
FileHoldsMemory ==
    /\ knowledge_file.state = "json"
    /\ DOMAIN knowledge_file.data = KnowledgeKeys
    /\ parse_knowledge(knowledge_file.data) = knowledge

\* C22: once load_knowledge has returned, and after every update_knowledge,
\* the knowledge file holds the knowledge base that is in memory: between two
\* operations memory never holds a mutation the file lacks.
C22_KnowledgeFileInSync == KnowledgeLoaded => FileHoldsMemory

\* An update has changed commands, stats and paths of a knowledge base that
\* was loaded from a file lacking some keys
C22_Witness ==
    /\ call.op = "update"
    /\ Len(knowledge.commands) > Len(call.kb0.commands)
    /\ knowledge.stats # call.kb0.stats
    /\ knowledge.paths # call.kb0.paths
    /\ call.kf0 # knowledge_file
    /\ FileHoldsMemory

-----------------------------------------------------------------------------
(* Properties of the interactive loop, checked under SpecMain *)

\* The reply is a structured payload: a JSON object that holds a string for
\* explanation and a string for command
WellFormedReply(reply) ==
    /\ reply.state = "json"
    /\ "explanation" \in DOMAIN reply.data /\ reply.data["explanation"].type = "string"
    /\ "command" \in DOMAIN reply.data /\ reply.data["command"].type = "string"

\* The loop has just received a reply that is not a structured payload
GotMalformedReply == mn.pc = "ask_model" /\ mn'.reply # NoReply /\ ~WellFormedReply(mn'.reply)

C25_FollowUpAfterRun == [][mn.pc = "update" => mn'.pc = "ask_model"]_vars

\* What the loop does after recording a command: the result is appended to the
\* messages as a user message and the loop waits at the "You: " prompt
ResultWaitsForNextInput ==
    [][mn.pc = "update" =>
         /\ mn'.pc = "loop"
         /\ mn'.messages = Append(mn.messages, "user")
         /\ Len(knowledge'.commands) = Len(knowledge.commands) + 1]_vars

\* The number of records of command c in commands whose success is ok
RecordsOf(commands, c, ok) ==
    Cardinality({i \in DOMAIN commands : commands[i].command = c /\ commands[i].success = ok})

\* C30: from a freshly created knowledge base on, after any sequence of
\* updates, stats has an entry for exactly the commands that occur in
\* commands, and for each of them success counts its records with success
\* true and failure its records with success false.
C30_StatsMatchCommands ==
    /\ DOMAIN knowledge.stats = {knowledge.commands[i].command : i \in DOMAIN knowledge.commands}
    /\ \A c \in DOMAIN knowledge.stats :
         /\ knowledge.stats[c].success = RecordsOf(knowledge.commands, c, TRUE)
         /\ knowledge.stats[c].failure = RecordsOf(knowledge.commands, c, FALSE)

\* Three updates were made, for two commands, one of which both succeeded
\* and failed
C30_Witness ==
    /\ Len(knowledge.commands) >= 3
    /\ Cardinality(DOMAIN knowledge.stats) = 2
    /\ \E c \in DOMAIN knowledge.stats :
         knowledge.stats[c].success >= 1 /\ knowledge.stats[c].failure >= 1

-----------------------------------------------------------------------------
(* Interactive editors and the classifier, checked under SpecRules *)

\* The executable of the command is an interactive editor
StartsEditor(cmd) == HasVerb(cmd, "nano") \/ HasVerb(cmd, "vim")

\* C24: a command whose executable is an interactive editor is classified as
\* block, whatever the rule set: also when the blocked list is empty and no
\* blocked pattern is in the command.
C24_EditorsBlocked == (Classified /\ StartsEditor(command)) => action = "block"

\* What the classifier does with an editor: it is blocked only by a pattern of
\* the blocked list, and with no list naming it no rule matches at all
EditorsFollowTheLists ==
    (Classified /\ StartsEditor(command)) =>
        /\ action = "block" <=> SomeNonEmptyPatternIn(rules.blocked, command)
        /\ (rules.blocked = <<>> /\ rules.confirm = <<>> /\ "nano" \notin Range(rules.auto)
              /\ "vim" \notin Range(rules.auto)) => action = "None"

\* An editor was classified under an empty blocked list
EditorClassifiedReached == Classified /\ StartsEditor(command) /\ rules.blocked = <<>>

-----------------------------------------------------------------------------
(* Properties of the rule store, checked under SpecRules *)

\* The YAML rule sources in the order they are read
YamlSources == <<files.safety, files.prefs>>

\* A source is well formed: it exists, loads as a mapping, and all its values are lists
WellFormed(doc) == doc.exists /\ doc.ok /\ doc.raises = ""

\* The entries of the whitelist file: its lines without surrounding blanks,
\* empty lines and # comments left out
FileEntries ==
    IF files.whitelist.exists
    THEN LET ls == files.whitelist.lines
             F[n \in 0..Len(ls)] ==
                IF n = 0 THEN <<>>
                ELSE IF strip(ls[n]) = "" \/ CharAt(strip(ls[n]), 1) = "#" THEN F[n - 1]
                ELSE Append(F[n - 1], strip(ls[n]))
         IN  F[Len(ls)]
    ELSE <<>>

\* Everything the sources name for the auto list, in the order they are read:
\* the defaults, each well-formed YAML source's part (given by Part), the file
SeenForAuto(Part(_)) ==
    (((DEFAULT_AUTO_COMMANDS
        \o (IF WellFormed(YamlSources[1]) THEN Part(YamlSources[1]) ELSE <<>>))
        \o (IF WellFormed(YamlSources[2]) THEN Part(YamlSources[2]) ELSE <<>>))
        \o FileEntries)

\* Both lists of a source, auto and whitelist
BothLists(doc) == doc.auto \o doc.whitelist

\* The auto list of a source, its whitelist list only when auto is empty
AutoElseWhitelist(doc) == IF doc.auto = <<>> THEN doc.whitelist ELSE doc.auto

FirstAt(xs, e) == CHOOSE i \in DOMAIN xs : xs[i] = e /\ \A j \in 1..(i - 1) : xs[j] # e

\* out holds what seen holds, once each, in the order of first occurrence
FirstSeenOrder(out, seen) ==
    /\ \A i, j \in DOMAIN out : i # j => out[i] # out[j]
    /\ Range(out) = Range(seen)
    /\ \A i, j \in DOMAIN out : i < j => FirstAt(seen, out[i]) < FirstAt(seen, out[j])

DefaultsAreAuto == \A i \in DOMAIN DEFAULT_AUTO_COMMANDS : DEFAULT_AUTO_COMMANDS[i] \in Range(rules.auto)

\* C26, as stated: the auto list has no duplicate, holds every default and
\* every entry of the auto and whitelist lists of the sources and of the
\* whitelist file, in first-seen order; without a whitelist file the defaults
\* are auto-approved all the same.
C26_AutoListAllEntries ==
    /\ FirstSeenOrder(rules.auto, SeenForAuto(BothLists))
    /\ DefaultsAreAuto

\* C26, amended: the same, where a YAML source contributes its auto list, and
\* its whitelist list only when its auto list is empty or absent.
C26_AutoListFirstSeen ==
    /\ FirstSeenOrder(rules.auto, SeenForAuto(AutoElseWhitelist))
    /\ DefaultsAreAuto

\* The sources repeat a default and each other, one source contributes through
\* its whitelist list, there is a whitelist file, and a command was approved
\* by an entry that is not a default
C26_Witness ==
    /\ Classified /\ action = "auto" /\ HasVerb(command, "sudo")
    /\ WellFormed(files.safety) /\ WellFormed(files.prefs) /\ files.whitelist.exists
    /\ files.prefs.auto = <<>> /\ files.prefs.whitelist # <<>>
    /\ Len(rules.auto) < Len(SeenForAuto(AutoElseWhitelist))
    /\ Len(rules.auto) > Len(DEFAULT_AUTO_COMMANDS)

-----------------------------------------------------------------------------
(* Properties of repeated plan execution, checked under SpecPlan *)

\* The runner is entered, or at work, for step ep.i
RunnerInvoked == ep.pc \in {"run", "running"}

\* C27: over any sequence of execute_plan calls on a plan, the runner is
\* invoked for a step only when every earlier step of the plan is done; a call
\* after one that a failed step has halted does not run what follows that step
\* while it is failed.
C27_RunsOnlyAfterDone ==
    RunnerInvoked => \A k \in 1..(ep.i - 1) : steps[k].status = "done"

\* What holds of the steps before the one the runner is invoked for: none of
\* them is pending, each is done or failed
EarlierStepsNotPending ==
    RunnerInvoked => \A k \in 1..(ep.i - 1) : steps[k].status \in {"done", "failed"}

\* A plan of pending steps was halted by the failure of a step, and a second
\* call runs the step after the failed one
ResumeRunsPastFailed ==
    /\ ep.n = 2 /\ ep.pc = "running" /\ ep.i > 1
    /\ steps[ep.i - 1].status = "failed"
    /\ \E k \in DOMAIN log : log[k].op = "ret" /\ log[k].idx = ep.i - 1

-----------------------------------------------------------------------------
(* Properties of plan execution across restarts, checked under SpecRestart *)

\* C28: across restarts at any point of the execution of a plan, no step's
\* command is executed more than once: once the runner has returned for a
\* step, the runner is never entered for that step again.
C28_NoStepRunTwice ==
    \A k1, k2 \in DOMAIN log :
        (k1 < k2 /\ log[k1].op = "ret" /\ log[k2].op = "run") => log[k1].idx # log[k2].idx

\* What holds: a step that was run and then written to the plan file is never
\* run again
SavedStepsNeverRerun ==
    \A k1, k2, k3 \in DOMAIN log :
        (k1 < k2 /\ k2 < k3 /\ log[k1].op = "ret" /\ log[k2].op = "save"
            /\ log[k2].idx = log[k1].idx /\ log[k3].op = "run")
        => log[k3].idx # log[k1].idx

\* The process was started again between the runner's return for a step and
\* the writing of the plan, and the step is run once more
RerunAfterRestartReached ==
    /\ ep.n = 2 /\ ep.pc = "running"
    /\ \E k \in DOMAIN log : log[k].op = "ret" /\ log[k].idx = ep.i
    /\ plan_file.data[ep.i].status = "pending"

\* The record update_knowledge appends for a step: its command, output, success
RecordOf(step) == [command |-> step.command, output |-> step.output, success |-> step.success[1]]

\* The same record as the knowledge file holds it
FileRecordOf(d) == [command |-> d.command, output |-> d.output, success |-> d.success]

\* C29: for each executed step the knowledge base is updated, and its file
\* written, before the plan is written; one update is made for each execution
\* of a step, right after it, with the step's command, output and success;
\* so in every state, a stop between the two writes included, each step the
\* plan file shows as done or failed has its record in the knowledge file.
C29_KnowledgeBeforePlan ==
    /\ \A k \in DOMAIN log :
         log[k].op = "update" =>
            /\ k > 1 /\ log[k - 1].op = "ret"
            /\ log[k - 1].idx = log[k].idx /\ log[k - 1].command = log[k].command
    /\ ep.pc = "save" =>
         /\ log[Len(log)].op = "update" /\ log[Len(log)].idx = ep.i
         /\ knowledge.commands[Len(knowledge.commands)] = RecordOf(steps[ep.i])
         /\ knowledge_file = dump_knowledge(knowledge)
         /\ plan_file.data[ep.i].status = "pending"
    /\ plan_file.state = "json" /\ knowledge_file.state = "json"
    /\ \A j \in DOMAIN plan_file.data :
         plan_file.data[j].status \in {"done", "failed"} =>
            \E r \in DOMAIN knowledge_file.data.commands :
                knowledge_file.data.commands[r] = FileRecordOf(plan_file.data[j])

\* The process stopped between the two writes: the knowledge file has the
\* record of a step the plan file still shows as pending, and was started again
C29_Witness ==
    /\ ep.pc = "idle" /\ ep.n = 1
    /\ \E k \in DOMAIN log : log[k].op = "update"
    /\ \A k \in DOMAIN log : log[k].op # "save"
    /\ Len(knowledge_file.data.commands) = 1
    /\ plan_file.data[1].status = "pending"


(***************************************************************************)
(* C31: plan review                                                        *)
(***************************************************************************)

\* The answers that approve a plan, as typed: surrounding blanks and case aside
C31_Approves(ans) == lower(strip(ans)) \in {"", "y", "yes"}

\* The state of plan execution and of the plan file is left as it was
C31_NothingSavedOrRun == UNCHANGED <<plan_file, ep, entry, log, steps>>

\* One step of the review of a generated plan, by the answer it acts on
C31_ReviewStep ==
    /\ mn.pc = "generate" => UNCHANGED <<plan_file, ep, entry, log>>
    /\ mn.pc = "review_ask" => C31_NothingSavedOrRun
    /\ mn.pc = "review_choice" =>
         IF C31_Approves(mn.choice)
         THEN /\ plan_file' = save_plan(steps)
              /\ UNCHANGED <<steps, log>>
              /\ steps # <<>> =>
                   /\ mn'.pc = "in_plan" /\ ep'.pc = "for" /\ ep'.n = ep.n + 1
                   /\ ep'.confirm_each_step /\ entry'.steps = steps
              /\ steps = <<>> => mn'.pc = mn.ret_to /\ UNCHANGED ep
         ELSE /\ C31_NothingSavedOrRun
              /\ mn'.pc = CASE lower(strip(mn.choice)) = "n" -> mn.ret_to
                             [] lower(strip(mn.choice)) = "u" -> "generate"
                             [] OTHER -> "review_ask"

\* C31: a generated plan is written to the plan file and handed to the plan
\* executor only by the step that acts on an approving answer (empty, 'y' or
\* 'yes'); on 'n' the review ends with the plan file, the executor and the
\* run log untouched; on 'u' the plan is generated again and on any other
\* answer the prompt is repeated, in both cases with nothing saved or run.
C31_PlanRunsOnlyApproved == [][C31_ReviewStep]_vars

\* C31 witness: an approved two-step plan is in the plan file and its first
\* step has been run after the operator confirmed it
C31_ApprovedPlanRunning ==
    /\ mn.pc = "in_plan" /\ ep.confirm_each_step
    /\ entry.steps \in GeneratedPlans /\ Len(entry.steps) = 2
    /\ load_plan(plan_file).steps = steps
    /\ steps[1].status = "done"
    /\ \E i \in DOMAIN log : i > ep.base /\ log[i].op = "run" /\ log[i].idx = 1


(***************************************************************************)
(* C32: totality of the classifier and of the runner's verb detection      *)
(***************************************************************************)

\* The verdicts check_command_rules returns: four strings and None
Dispositions == {"block", "danger", "confirm", "auto", "None"}

\* shlex.split accepts the command
Tokenizable(cmd) == shlex_split(cmd).ok

\* C32: check_command_rules returns a disposition for every command and rule
\* set and never raises, commands with unbalanced quotes and the empty command
\* included, and run_command returns an (output, success) pair for every
\* command, never raising while it looks for the built-in verb.
C32_ClassifyAndRunNeverRaise ==
    /\ call.op = "classify" => ~call.raised /\ action \in Dispositions
    /\ (call.op = "run" /\ ~Tokenizable(strip(call.command))) => ~call.raised

\* What holds of the classifier: a verdict that is no disposition is the
\* ValueError of shlex.split, on a command no blocked, dangerous or confirm
\* pattern matched; the empty command and every other command shlex.split
\* accepts get a disposition
ClassifierTotalWhenTokenizable ==
    call.op = "classify" =>
        /\ Tokenizable(call.command) => ~call.raised /\ action \in Dispositions
        /\ call.raised => /\ action = "ValueError" /\ ~Tokenizable(call.command)
                          /\ ~SomePatternIn(rules.blocked, call.command)
                          /\ ~ContainsDangerous(call.command)
                          /\ ~SomePatternIn(rules.confirm, call.command)

\* The runner raises on a command shlex.split rejects, returning no pair
RunnerRaisesOnUnbalancedQuote ==
    (call.op = "run" /\ ~Tokenizable(strip(call.command))) =>
        /\ call.raised /\ CURRENT_DIR = call.cwd0 /\ fs = call.fs0

\* The empty command has been classified
EmptyCommandClassified == call.op = "classify" /\ call.command = "" /\ ~call.raised

====
